---- MODULE Spec2Model ----
(***************************************************************************)
(* Halfedge connectivity store of openmodel::geometry::Mesh                *)
(* (src/src/openmodel/src/geometry/mesh.rs): the vertex, face and halfedge *)
(* maps, the two key counters, and the operations add_vertex, add_face,    *)
(* clear, number_of_vertices/faces/edges and euler.                        *)
(***************************************************************************)
EXTENDS Integers, Sequences, FiniteSets, TLC

\* ---- bounds of the model ----
MaxVertexKey == 3
MaxFaceKey == 3
MaxFaceLen == 3
MaxCoord == 1
MaxOps == 5
\* polygon inputs: x in {0, 2, .., 2 * MaxGrid}, at most MaxPolygonLen points
MaxGrid == 2
MaxPolygonLen == 4
\* and polygons of at most MaxStarLen points over six points of a square
MaxStarLen == 5
\* pipe and edge calls: at most MaxPlinePoints points in a polyline, at most
\* MaxFaceCalls calls of add_face before the edges are extracted
MaxPlinePoints == 3
MaxFaceCalls == 2
\* the caller writes the attributes of the vertices with keys 0..MaxWrittenKey
MaxWrittenKey == 0

VARIABLES halfedge, vertex, face, facedata, edgedata, max_vertex, max_face, call, steps

vars == <<halfedge, vertex, face, facedata, edgedata, max_vertex, max_face, call, steps>>

\* ---- Option<usize> ----
None == << >>
Some(x) == <<x>>
IsSome(o) == Len(o) = 1
Unwrap(o) == o[1]

\* ---- HashMap ----
EmptyMap == << >>
ContainsKey(m, k) == k \in DOMAIN m
\* insert(k, val): the map with val at k and every other key as in m
Insert(m, k, val) == (k :> val) @@ m
\* variant: insert() in place of entry().or_insert_with()
EntryOrInsert_Overwrite(m, k, val) == Insert(m, k, val)
EntryOrInsert(m, k, val) == IF ContainsKey(m, k) THEN m ELSE Insert(m, k, val)

\* ---- inputs ----
VertexKeys == 0..MaxVertexKey
FaceKeys == 0..MaxFaceKey
Points == [x : 0..MaxCoord, y : {0}, z : {0}]
OptVertexKeys == {None} \cup {Some(k) : k \in VertexKeys}
OptFaceKeys == {None} \cup {Some(k) : k \in FaceKeys}
VertexLists == UNION {[1..n -> VertexKeys] : n \in 2..MaxFaceLen}
SampleAttributes == [weight |-> 1]
\* Point::new(0.0, 0.0, 0.0)
Origin == [x |-> 0, y |-> 0, z |-> 0]

\* VertexData::new(point): the position and an empty attribute map
VertexDataNew(point) == [x |-> point.x, y |-> point.y, z |-> point.z, attributes |-> EmptyMap]

\* ---- Mesh::new ----
Init ==
    /\ halfedge = EmptyMap
    /\ vertex = EmptyMap
    /\ face = EmptyMap
    /\ facedata = EmptyMap
    /\ edgedata = EmptyMap
    /\ max_vertex = 0
    /\ max_face = 0
    /\ call = [name |-> "new", position |-> None, vertices |-> << >>, key |-> None, ret |-> None]
    /\ steps = 0

\* ---- derived counts ----
number_of_vertices(vs) == Cardinality(DOMAIN vs)
number_of_faces(fs) == Cardinality(DOMAIN fs)

\* the directed entries (u, v) of a halfedge map
HalfedgeEntries(he) == UNION {{<<u, v>> : v \in DOMAIN he[u]} : u \in DOMAIN he}

\* variant: the pair is not put in (min, max) order
NormalisedEdge_Directed(u, v) == <<u, v>>
\* number_of_edges: one count per normalised (min, max) tuple inserted in `seen`
NormalisedEdge(u, v) == IF u < v THEN <<u, v>> ELSE <<v, u>>
number_of_edges(he) == Cardinality({NormalisedEdge(e[1], e[2]) : e \in HalfedgeEntries(he)})

euler(vs, he, fs) == number_of_vertices(vs) - number_of_edges(he) + number_of_faces(fs)

\* ---- add_vertex ----
\* key.unwrap_or_else(|| { self.max_vertex += 1; self.max_vertex })
VertexKeyOf(key, mv) == IF IsSome(key) THEN Unwrap(key) ELSE mv + 1
MaxVertexAfterKey(key, mv) == IF IsSome(key) THEN mv ELSE mv + 1
\* variant: the counter is not moved past an explicit key
BumpCounter_Never(k, counter) == counter
\* if vertex_key >= self.max_vertex { self.max_vertex = vertex_key + 1 }
BumpCounter(k, counter) == IF k >= counter THEN k + 1 ELSE counter

AddVertex(position, key) ==
    LET vertex_key == VertexKeyOf(key, max_vertex)
        mv1 == MaxVertexAfterKey(key, max_vertex)
    IN  /\ steps < MaxOps
        /\ vertex_key <= MaxVertexKey
        /\ max_vertex' = BumpCounter(vertex_key, mv1)
        /\ vertex' = Insert(vertex, vertex_key, VertexDataNew(position))
        /\ halfedge' = EntryOrInsert(halfedge, vertex_key, EmptyMap)
        /\ call' = [name |-> "add_vertex", position |-> position, vertices |-> << >>,
                    key |-> key, ret |-> vertex_key]
        /\ steps' = steps + 1
        /\ UNCHANGED <<face, facedata, edgedata, max_face>>

\* ---- add_face ----
\* variant: the length test is off by one
TooFewVertices_LessThanTwo(vertices) == Len(vertices) < 2
\* vertices.len() < 3
TooFewVertices(vertices) == Len(vertices) < 3
\* variant: any() in place of all()
AllVerticesExist_Any(vertices, vs) == \E i \in 1..Len(vertices) : ContainsKey(vs, vertices[i])
\* vertices.iter().all(|v| self.vertex.contains_key(v))
AllVerticesExist(vertices, vs) == \A i \in 1..Len(vertices) : ContainsKey(vs, vertices[i])
\* variant: only neighbouring positions are compared
HasDuplicateVertex_AdjacentOnly(vertices) ==
    \E i \in 1..(Len(vertices) - 1) : vertices[i] = vertices[i + 1]
\* the HashSet scan: some vertex is inserted a second time
HasDuplicateVertex(vertices) ==
    \E i, j \in 1..Len(vertices) : i < j /\ vertices[i] = vertices[j]
FaceIsValid(vertices, vs) ==
    /\ ~TooFewVertices(vertices)
    /\ AllVerticesExist(vertices, vs)
    /\ ~HasDuplicateVertex(vertices)

\* fkey.unwrap_or_else(|| { self.max_face += 1; self.max_face })
FaceKeyOf(fkey, mf) == IF IsSome(fkey) THEN Unwrap(fkey) ELSE mf + 1
MaxFaceAfterKey(fkey, mf) == IF IsSome(fkey) THEN mf ELSE mf + 1

\* vertices[(i + 1) % vertices.len()], with 1-based positions
NextInFace(vertices, i) == vertices[(i % Len(vertices)) + 1]

\* variant: the reverse halfedge is never created
HalfedgeStep_SkipOpposite(he, u, v, face_key) ==
    LET he1 == EntryOrInsert(he, u, EmptyMap)
        he2 == EntryOrInsert(he1, v, EmptyMap)
    IN  Insert(he2, u, Insert(he2[u], v, Some(face_key)))
\* variant: the reverse halfedge is reset to None without the contains_key test
HalfedgeStep_ResetOpposite(he, u, v, face_key) ==
    LET he1 == EntryOrInsert(he, u, EmptyMap)
        he2 == EntryOrInsert(he1, v, EmptyMap)
        he3 == Insert(he2, u, Insert(he2[u], v, Some(face_key)))
    IN  Insert(he3, v, Insert(he3[v], u, None))
\* one iteration of the connectivity loop, for the pair (u, v)
HalfedgeStep(he, u, v, face_key) ==
    LET he1 == EntryOrInsert(he, u, EmptyMap)
        he2 == EntryOrInsert(he1, v, EmptyMap)
        he3 == Insert(he2, u, Insert(he2[u], v, Some(face_key)))
    IN  IF ContainsKey(he3[v], u)
        THEN he3
        ELSE Insert(he3, v, Insert(he3[v], u, None))

\* for i in 0..vertices.len(): iterations i, i+1, ... of the loop applied to he
RECURSIVE HalfedgeLoop(_, _, _, _)
HalfedgeLoop(he, vertices, face_key, i) ==
    IF i > Len(vertices)
    THEN he
    ELSE HalfedgeLoop(HalfedgeStep(he, vertices[i], NextInFace(vertices, i), face_key),
                      vertices, face_key, i + 1)

\* add_face as a function of the mesh and its arguments: the return value and
\* the maps and counter it writes
add_face(he, vs, fs, mf, vertices, fkey) ==
    IF ~FaceIsValid(vertices, vs)
    THEN [ret |-> None, halfedge |-> he, face |-> fs, max_face |-> mf]
    ELSE LET face_key == FaceKeyOf(fkey, mf)
             mf1 == MaxFaceAfterKey(fkey, mf)
         IN  [ret |-> Some(face_key),
              halfedge |-> HalfedgeLoop(he, vertices, face_key, 1),
              face |-> Insert(fs, face_key, vertices),
              max_face |-> BumpCounter(face_key, mf1)]

\* `call` keeps the vertex list of an accepted call only
AddFace(vertices, fkey) ==
    \E out \in {add_face(halfedge, vertex, face, max_face, vertices, fkey)} :
        /\ steps < MaxOps
        /\ IsSome(out.ret) => Unwrap(out.ret) <= MaxFaceKey
        /\ halfedge' = out.halfedge
        /\ face' = out.face
        /\ max_face' = out.max_face
        /\ call' = [name |-> "add_face", position |-> None,
                    vertices |-> IF IsSome(out.ret) THEN vertices ELSE << >>,
                    key |-> fkey, ret |-> out.ret]
        /\ steps' = steps + 1
        /\ UNCHANGED <<vertex, facedata, edgedata, max_vertex>>

\* ---- clear ----
\* variant: the key counters are not reset
Clear_KeepCounters ==
    /\ steps < MaxOps
    /\ halfedge' = EmptyMap
    /\ vertex' = EmptyMap
    /\ face' = EmptyMap
    /\ facedata' = EmptyMap
    /\ edgedata' = EmptyMap
    /\ call' = [name |-> "clear", position |-> None, vertices |-> << >>, key |-> None, ret |-> None]
    /\ steps' = steps + 1
    /\ UNCHANGED <<max_vertex, max_face>>
Clear ==
    /\ steps < MaxOps
    /\ halfedge' = EmptyMap
    /\ vertex' = EmptyMap
    /\ face' = EmptyMap
    /\ facedata' = EmptyMap
    /\ edgedata' = EmptyMap
    /\ max_vertex' = 0
    /\ max_face' = 0
    /\ call' = [name |-> "clear", position |-> None, vertices |-> << >>, key |-> None, ret |-> None]
    /\ steps' = steps + 1

\* ---- caller writes to the public attribute maps ----
\* mesh.facedata.insert(face_key, attributes), for a face of the mesh
SetFaceData(face_key) ==
    /\ steps < MaxOps
    /\ ContainsKey(face, face_key)
    /\ facedata' = Insert(facedata, face_key, SampleAttributes)
    /\ call' = [name |-> "set_facedata", position |-> None, vertices |-> << >>,
                key |-> Some(face_key), ret |-> None]
    /\ steps' = steps + 1
    /\ UNCHANGED <<halfedge, vertex, face, edgedata, max_vertex, max_face>>

\* mesh.edgedata.insert((u, v), attributes), for a halfedge of the mesh
SetEdgeData(u, v) ==
    /\ steps < MaxOps
    /\ <<u, v>> \in HalfedgeEntries(halfedge)
    /\ edgedata' = Insert(edgedata, <<u, v>>, SampleAttributes)
    /\ call' = [name |-> "set_edgedata", position |-> None, vertices |-> <<u, v>>,
                key |-> None, ret |-> None]
    /\ steps' = steps + 1
    /\ UNCHANGED <<halfedge, vertex, face, facedata, max_vertex, max_face>>

\* ---- caller writes to the public vertex map ----
\* the frame of a call mesh.vertex.get_mut(&vertex_key).unwrap().set_..(..)
VertexDataCall(name, vertex_key) ==
    /\ steps < MaxOps
    /\ ContainsKey(vertex, vertex_key)
    /\ call' = [name |-> name, position |-> None, vertices |-> << >>,
                key |-> Some(vertex_key), ret |-> None]
    /\ steps' = steps + 1
    /\ UNCHANGED <<halfedge, face, facedata, edgedata, max_vertex, max_face>>
\* VertexData::set_position(point)
SetPosition(vertex_key, point) ==
    /\ VertexDataCall("set_position", vertex_key)
    /\ vertex' = [vertex EXCEPT ![vertex_key].x = point.x, ![vertex_key].y = point.y,
                                ![vertex_key].z = point.z]
\* the frame of a call that writes the attributes of a vertex
AttributeCall(name, vertex_key) ==
    /\ vertex_key <= MaxWrittenKey
    /\ VertexDataCall(name, vertex_key)
\* VertexData::set_color(r, g, b)
SetColor(vertex_key, r, g, b) ==
    /\ AttributeCall("set_color", vertex_key)
    /\ vertex' = [vertex EXCEPT ![vertex_key].attributes =
                      Insert(Insert(Insert(@, "r", r), "g", g), "b", b)]
\* VertexData::set_normal(nx, ny, nz)
SetNormal(vertex_key, nx, ny, nz) ==
    /\ AttributeCall("set_normal", vertex_key)
    /\ vertex' = [vertex EXCEPT ![vertex_key].attributes =
                      Insert(Insert(Insert(@, "nx", nx), "ny", ny), "nz", nz)]
\* VertexData::set_tex_coords(u, v)
SetTexCoords(vertex_key, u, v) ==
    /\ AttributeCall("set_tex_coords", vertex_key)
    /\ vertex' = [vertex EXCEPT ![vertex_key].attributes = Insert(Insert(@, "u", u), "v", v)]
\* VertexData::set_attribute(name, value)
SetAttribute(vertex_key, name, value) ==
    /\ AttributeCall("set_attribute", vertex_key)
    /\ vertex' = [vertex EXCEPT ![vertex_key].attributes = Insert(@, name, value)]

\* the vertex lists passed to add_face: every list the mesh accepts, and of the
\* lists it rejects (whose vertices `call` does not keep) the ones that start
\* 0, 1: too short, repeating a key, or naming a third key
RejectedSamples == {<<0, 1>>} \cup {<<0, 1, k>> : k \in VertexKeys}
FaceInputs(vs) == {l \in VertexLists : FaceIsValid(l, vs)} \cup RejectedSamples

\* the connectivity store: every vertex at the origin
Next ==
    \/ \E key \in OptVertexKeys : AddVertex(Origin, key)
    \/ steps < MaxOps /\ \E vertices \in FaceInputs(vertex), fkey \in OptFaceKeys :
                             AddFace(vertices, fkey)
    \/ \E face_key \in FaceKeys : SetFaceData(face_key)
    \/ \E u, v \in VertexKeys : SetEdgeData(u, v)
    \/ \E vertex_key \in VertexKeys : SetColor(vertex_key, 1, 0, 0)
    \/ \E vertex_key \in VertexKeys : SetNormal(vertex_key, 0, 0, 1)
    \/ \E vertex_key \in VertexKeys : SetTexCoords(vertex_key, 1, 0)
    \/ \E vertex_key \in VertexKeys : SetAttribute(vertex_key, "weight", 1)
    \/ Clear

Spec == Init /\ [][Next]_vars

\* vertices at several positions, faces with auto-generated keys
NextPositions ==
    \/ \E position \in Points, key \in OptVertexKeys : AddVertex(position, key)
    \/ steps < MaxOps /\ \E vertices \in FaceInputs(vertex) : AddFace(vertices, None)
    \/ \E vertex_key \in VertexKeys, point \in Points : SetPosition(vertex_key, point)
    \/ Clear

SpecPositions == Init /\ [][NextPositions]_vars

(***************************************************************************)
(* Mesh builders: from_polygons, from_polygons_with_merge,                 *)
(* from_polygon_earclip, create_pipe and the edge extraction.  A mesh is   *)
(* also handled as a value (the record of its maps and counters), so that  *)
(* a builder is a function of its arguments.  Coordinates are integers     *)
(* counted in the unit of the input.                                       *)
(***************************************************************************)
\* Point::new(x, y, z)
PointNew(x, y, z) == [x |-> x, y |-> y, z |-> z]
\* the list s started k places later, and the list in opposite order
Rotate(s, k) == [i \in 1..Len(s) |-> s[((i - 1 + k) % Len(s)) + 1]]
Reverse(s) == [i \in 1..Len(s) |-> s[Len(s) + 1 - i]]

\* Mesh::new() as a value
MeshNew == [halfedge |-> EmptyMap, vertex |-> EmptyMap, face |-> EmptyMap,
            max_vertex |-> 0, max_face |-> 0]
\* the mesh held by the state variables
MeshOfState == [halfedge |-> halfedge, vertex |-> vertex, face |-> face,
                max_vertex |-> max_vertex, max_face |-> max_face]

\* add_vertex as a function of the mesh: the key returned and the mesh written
add_vertex(m, position, key) ==
    LET vertex_key == VertexKeyOf(key, m.max_vertex)
        mv1 == MaxVertexAfterKey(key, m.max_vertex)
    IN  [ret |-> vertex_key,
         mesh |-> [halfedge |-> EntryOrInsert(m.halfedge, vertex_key, EmptyMap),
                   vertex |-> Insert(m.vertex, vertex_key, VertexDataNew(position)),
                   face |-> m.face,
                   max_vertex |-> BumpCounter(vertex_key, mv1),
                   max_face |-> m.max_face]]

\* add_face on a mesh value
mesh_add_face(m, vertices, fkey) ==
    LET out == add_face(m.halfedge, m.vertex, m.face, m.max_face, vertices, fkey)
    IN  [ret |-> out.ret,
         mesh |-> [halfedge |-> out.halfedge, vertex |-> m.vertex, face |-> out.face,
                   max_vertex |-> m.max_vertex, max_face |-> out.max_face]]

\* the state variables after a builder returned mesh m
InstallMesh(m) ==
    /\ halfedge' = m.halfedge
    /\ vertex' = m.vertex
    /\ face' = m.face
    /\ max_vertex' = m.max_vertex
    /\ max_face' = m.max_face
    /\ facedata' = EmptyMap
    /\ edgedata' = EmptyMap

\* Option::unwrap_or
UnwrapOr(o, default) == IF IsSome(o) THEN Unwrap(o) ELSE default

\* ---- vertex merge keys ----
\* The coordinates of an input are counted in one of two units: Whole (1.0,
\* the coordinates of the tests) or Fine (1e-11, coordinates of at most 2e-8
\* in size).  A coordinate of c units is the f64 nearest to c times the unit,
\* as the literal of Point::new gives it.  A precision is counted in steps of
\* 1e-11 whatever the unit; the precisions of the inputs (1e-11, 1e-10, 1e-9)
\* divide 1.
Whole == "1"
Fine == "1e-11"
\* precision.unwrap_or(1e-10), in steps of 1e-11
DefaultPrecision == 10
\* the step of a decimal string with 10 fractional digits ("{:.10}"), in
\* steps of 1e-11
FormatStep == 10
\* the precision of a call, with the unit of its coordinates
PrecisionOf(precision, unit) ==
    [value |-> UnwrapOr(precision, DefaultPrecision), unit |-> unit]

\* f64::round of a / b: to the nearest integer, halves away from zero
RoundHalfAway(a, b) ==
    IF a >= 0 THEN (2 * a + b) \div (2 * b) ELSE -((b - 2 * a) \div (2 * b))
\* f64::abs
Abs(a) == IF a < 0 THEN -a ELSE a
\* The f64 quotient c / precision of a Fine coordinate c that is halfway
\* between two multiples of the precision is not always the half: the sizes
\* |c| up to 2e-8 for which the division gives a quotient just below the half
\* (3.5e-10 / 1e-10 is 3.4999999999999996), so that round() goes toward zero.
\* The quotient of every other coordinate rounds as the exact quotient does.
QuotientBelowHalf(precision) ==
    IF precision = 10
    THEN {35, 55, 145, 215, 225, 275, 285, 375, 385, 485, 495, 505, 515, 615, 625, 635,
          805, 825, 845, 915, 935, 955, 975, 1045, 1065, 1085, 1105, 1155, 1175, 1195,
          1215, 1505, 1535, 1575, 1615, 1645, 1685, 1725, 1795, 1835, 1875, 1905, 1945,
          1985}
    ELSE IF precision = 100
    THEN {350, 450, 550, 750, 1050, 1250, 1550, 1650, 1950}
    ELSE {}
\* round() of a quotient or product whose exact value is a / b, toward zero
\* when a is one of the halves `below`
RoundF64(a, b, below) ==
    IF Abs(a) \in below
    THEN (IF a >= 0 THEN a \div b ELSE -((-a) \div b))
    ELSE RoundHalfAway(a, b)
\* (c / precision).round() * precision; a whole number is a multiple of the
\* precision
Quantize(c, precision) ==
    IF precision.unit = Whole
    THEN c
    ELSE RoundF64(c, precision.value, QuotientBelowHalf(precision.value)) * precision.value
\* format!("{:.10}", v) of a value v >= 0: the string is given by its integer
\* part and the number its 10 fractional digits print (the inputs have no
\* value halfway between two steps of 1e-10, where the last digit depends on
\* the binary expansion of v)
FormatFixed10(v, unit) ==
    IF unit = Whole
    THEN <<v, 0>>
    ELSE <<0, (2 * v + FormatStep) \div (2 * FormatStep)>>
\* the key string of from_polygons
FormatKey(point, precision) ==
    <<FormatFixed10(Quantize(point.x, precision), precision.unit),
      FormatFixed10(Quantize(point.y, precision), precision.unit),
      FormatFixed10(Quantize(point.z, precision), precision.unit)>>

\* ---- from_polygons ----
\* variant: every point becomes a new vertex
PolygonPoint_AlwaysAdd(st, point, precision) ==
    LET key == FormatKey(point, precision)
        out == add_vertex(st.mesh, point, None)
    IN  [mesh |-> out.mesh,
         vertex_map |-> Insert(st.vertex_map, key, out.ret),
         face_vertices |-> Append(st.face_vertices, out.ret)]
\* the body of `for point in polygon`: the vertex of the point's key, added to
\* the mesh when the key is new; st = [mesh, vertex_map, face_vertices]
PolygonPoint(st, point, precision) ==
    LET key == FormatKey(point, precision)
    IN  IF ContainsKey(st.vertex_map, key)
        THEN [mesh |-> st.mesh,
              vertex_map |-> st.vertex_map,
              face_vertices |-> Append(st.face_vertices, st.vertex_map[key])]
        ELSE LET out == add_vertex(st.mesh, point, None)
             IN  [mesh |-> out.mesh,
                  vertex_map |-> Insert(st.vertex_map, key, out.ret),
                  face_vertices |-> Append(st.face_vertices, out.ret)]

\* `for point in polygon`: the points not yet in face_vertices, in order
RECURSIVE PolygonPoints(_, _, _)
PolygonPoints(st, polygon, precision) ==
    IF Len(st.face_vertices) >= Len(polygon)
    THEN st
    ELSE PolygonPoints(PolygonPoint(st, polygon[Len(st.face_vertices) + 1], precision),
                       polygon, precision)

\* the body of `for polygon in polygons`; st = [mesh, vertex_map, assigned,
\* added]: `assigned` keeps, for each polygon, the vertex keys its points were
\* given (empty for a skipped polygon), `added` the values add_face returned
FromPolygonsStep(st, polygon, precision) ==
    IF Len(polygon) < 3
    THEN [mesh |-> st.mesh, vertex_map |-> st.vertex_map,
          assigned |-> Append(st.assigned, << >>), added |-> Append(st.added, << >>)]
    ELSE LET pts == PolygonPoints([mesh |-> st.mesh, vertex_map |-> st.vertex_map,
                                   face_vertices |-> << >>], polygon, precision)
             out == mesh_add_face(pts.mesh, pts.face_vertices, None)
         IN  IF Len(pts.face_vertices) >= 3
             THEN [mesh |-> out.mesh, vertex_map |-> pts.vertex_map,
                   assigned |-> Append(st.assigned, pts.face_vertices),
                   added |-> Append(st.added, <<out.ret>>)]
             ELSE [mesh |-> pts.mesh, vertex_map |-> pts.vertex_map,
                   assigned |-> Append(st.assigned, pts.face_vertices),
                   added |-> Append(st.added, << >>)]

\* `for polygon in polygons`: the polygons without an entry in `assigned`, in order
RECURSIVE FromPolygonsLoop(_, _, _)
FromPolygonsLoop(st, polygons, precision) ==
    IF Len(st.assigned) >= Len(polygons)
    THEN st
    ELSE FromPolygonsLoop(FromPolygonsStep(st, polygons[Len(st.assigned) + 1], precision),
                          polygons, precision)

\* from_polygons(polygons, precision) on coordinates counted in `unit`: the
\* mesh, and the vertex keys given to the points of each polygon
from_polygons(polygons, precision, unit) ==
    LET st == FromPolygonsLoop([mesh |-> MeshNew, vertex_map |-> EmptyMap, assigned |-> << >>,
                                added |-> << >>],
                               polygons, PrecisionOf(precision, unit))
    IN  [mesh |-> st.mesh, assigned |-> st.assigned, added |-> st.added]

\* ---- ear clipping (earclip_triangulate and its helpers) ----
\* A 2D point [f64; 2] is a pair <<x, y>>; indices into the point list are
\* 0-based as in the code, so that points[idx] is At(points, idx).
At(s, idx) == s[idx + 1]

\* Result<Vec<[usize; 3]>, &str>
Ok(v) == [ok |-> TRUE, value |-> v, err |-> ""]
Err(e) == [ok |-> FALSE, value |-> << >>, err |-> e]

sign(p1, p2, p3) ==
    (p1[1] - p3[1]) * (p2[2] - p3[2]) - (p2[1] - p3[1]) * (p1[2] - p3[2])

\* variant: every point counts as inside
point_in_triangle_Always(p, a, b, c) == TRUE
point_in_triangle(p, a, b, c) ==
    LET d1 == sign(p, a, b)
        d2 == sign(p, b, c)
        d3 == sign(p, c, a)
        has_neg == (d1 < 0) \/ (d2 < 0) \/ (d3 < 0)
        has_pos == (d1 > 0) \/ (d2 > 0) \/ (d3 > 0)
    IN  ~(has_neg /\ has_pos)

\* the sum of the loop of compute_signed_area
RECURSIVE AreaSum(_, _)
AreaSum(points, i) ==
    IF i >= Len(points)
    THEN 0
    ELSE LET p0 == At(points, i)
             p1 == At(points, (i + 1) % Len(points))
         IN  (p1[1] - p0[1]) * (p1[2] + p0[2]) + AreaSum(points, i + 1)
\* sum * 0.5: exact for the even coordinates of the inputs
compute_signed_area(points) == AreaSum(points, 0) \div 2

is_ear(points, indices, prev, curr, next) ==
    LET a == At(points, prev)
        b == At(points, curr)
        c == At(points, next)
        ab == <<b[1] - a[1], b[2] - a[2]>>
        bc == <<c[1] - b[1], c[2] - b[2]>>
        cross == ab[1] * bc[2] - ab[2] * bc[1]
    IN  IF cross <= 0
        THEN FALSE
        ELSE \A k \in 1..Len(indices) :
                 (indices[k] # prev /\ indices[k] # curr /\ indices[k] # next)
                     => ~point_in_triangle(At(points, indices[k]), a, b, c)

\* the scan `for i in 0..indices.len()`: prev, curr and next at position i
PrevIdx(indices, i) == IF i = 0 THEN Len(indices) - 1 ELSE i - 1
NextIdx(indices, i) == (i + 1) % Len(indices)
EarAt(points, indices, i) ==
    is_ear(points, indices, At(indices, PrevIdx(indices, i)), At(indices, i),
           At(indices, NextIdx(indices, i)))
\* the position at which the scan breaks: the first ear, None when it finds none
FirstEar(points, indices) ==
    LET ears == {i \in 0..(Len(indices) - 1) : EarAt(points, indices, i)}
    IN  IF ears = {} THEN None ELSE Some(CHOOSE i \in ears : \A j \in ears : i <= j)

\* variant: the vertex after the ear is removed too
Remove_Two(s, i) == [k \in 1..(Len(s) - 2) |-> IF k <= i THEN s[k] ELSE s[k + 2]]
\* Vec::remove(i), for a 0-based position i
Remove(s, i) == [k \in 1..(Len(s) - 1) |-> IF k <= i THEN s[k] ELSE s[k + 1]]

\* one pass of `while indices.len() > 3`, on st = [ear_found, indices, triangles]
EarclipPass(points, st) ==
    LET ear == FirstEar(points, st.indices)
    IN  IF IsSome(ear)
        THEN LET i == Unwrap(ear)
             IN  [ear_found |-> TRUE,
                  indices |-> Remove(st.indices, i),
                  triangles |-> Append(st.triangles,
                                       <<At(st.indices, PrevIdx(st.indices, i)),
                                         At(st.indices, i),
                                         At(st.indices, NextIdx(st.indices, i))>>)]
        ELSE [ear_found |-> FALSE, indices |-> st.indices, triangles |-> st.triangles]

RECURSIVE EarclipLoop(_, _)
EarclipLoop(points, st) ==
    IF st.ear_found /\ Len(st.indices) > 3
    THEN EarclipLoop(points, EarclipPass(points, st))
    ELSE st

\* variant: the orientation test is inverted
WasReversed_Opposite(signed_area) == signed_area < 0
\* let was_reversed = signed_area > 0.0
WasReversed(signed_area) == signed_area > 0

\* (0..polygon_points.len()).collect()
InitialIndices(n) == [k \in 1..n |-> k - 1]
\* `if indices.len() == 3 { triangles.push(...) }`
WithFinalTriangle(st) ==
    IF Len(st.indices) = 3
    THEN Append(st.triangles, <<st.indices[1], st.indices[2], st.indices[3]>>)
    ELSE st.triangles
\* variant: the indices of a reversed polygon are returned as they are
MapBack_Identity(triangles, was_reversed, n) == triangles
\* triangle[k] = n - 1 - triangle[k], when the points were reversed
MapBack(triangles, was_reversed, n) ==
    IF was_reversed
    THEN [t \in 1..Len(triangles) |->
             <<n - 1 - triangles[t][1], n - 1 - triangles[t][2], n - 1 - triangles[t][3]>>]
    ELSE triangles

earclip_triangulate(points) ==
    IF Len(points) < 3
    THEN Err("Polygon must have at least 3 vertices")
    ELSE IF Len(points) = 3
    THEN Ok(<< <<0, 1, 2>> >>)
    ELSE LET was_reversed == WasReversed(compute_signed_area(points))
             polygon_points == IF was_reversed THEN Reverse(points) ELSE points
             st == EarclipLoop(polygon_points,
                               [ear_found |-> TRUE, indices |-> InitialIndices(Len(points)),
                                triangles |-> << >>])
         IN  IF ~st.ear_found
             THEN Err("Unable to find valid ear for triangulation")
             ELSE Ok(MapBack(WithFinalTriangle(st), was_reversed, Len(points)))

\* ---- from_polygon_earclip ----
\* polygon_points.iter().map(|p| [p.x, p.y])
Points2D(polygon_points) == [i \in 1..Len(polygon_points) |->
                                <<polygon_points[i].x, polygon_points[i].y>>]

\* `for point in polygon_points`: a vertex with an auto key for every point;
\* st = [mesh, vertex_keys]
RECURSIVE AddAllVertices(_, _)
AddAllVertices(st, polygon_points) ==
    IF Len(st.vertex_keys) >= Len(polygon_points)
    THEN st
    ELSE LET out == add_vertex(st.mesh, polygon_points[Len(st.vertex_keys) + 1], None)
         IN  AddAllVertices([mesh |-> out.mesh, vertex_keys |-> Append(st.vertex_keys, out.ret)],
                            polygon_points)

\* variant: the triangle's indices are used as vertex keys
TriangleFace_RawIndices(vertex_keys, triangle) == triangle
\* vec![vertex_keys[triangle[0]], vertex_keys[triangle[1]], vertex_keys[triangle[2]]]
TriangleFace(vertex_keys, triangle) ==
    <<At(vertex_keys, triangle[1]), At(vertex_keys, triangle[2]), At(vertex_keys, triangle[3])>>

\* `for triangle in triangles`: add_face for every triangle without an entry
\* in `rets`; st = [mesh, rets], rets the values returned by add_face
RECURSIVE AddTriangles(_, _, _)
AddTriangles(st, vertex_keys, triangles) ==
    IF Len(st.rets) >= Len(triangles)
    THEN st
    ELSE LET out == mesh_add_face(st.mesh,
                                  TriangleFace(vertex_keys, triangles[Len(st.rets) + 1]), None)
         IN  AddTriangles([mesh |-> out.mesh, rets |-> Append(st.rets, out.ret)],
                          vertex_keys, triangles)

from_polygon_earclip(polygon_points) ==
    IF Len(polygon_points) < 3
    THEN MeshNew
    ELSE LET triangles == earclip_triangulate(Points2D(polygon_points))
         IN  IF ~triangles.ok
             THEN MeshNew
             ELSE LET st == AddAllVertices([mesh |-> MeshNew, vertex_keys |-> << >>],
                                           polygon_points)
                  IN  AddTriangles([mesh |-> st.mesh, rets |-> << >>],
                                   st.vertex_keys, triangles.value).mesh

\* is_vertex_on_boundary: some halfedge leaving the vertex has no face
is_vertex_on_boundary(he, vertex_key) ==
    /\ ContainsKey(he, vertex_key)
    /\ \E w \in DOMAIN he[vertex_key] : he[vertex_key][w] = None

\* ---- from_polygons_with_merge ----
\* The f64 product c * factor, with factor = 1.0 / precision, of a Fine
\* coordinate c that is halfway between two multiples of the precision is not
\* always the half: the sizes |c| up to 2e-8 for which the product is just
\* below the half, so that round() goes toward zero.  The factor of 1e-9 is
\* 999999999.9999999 (5e-10 * factor is 0.49999999999999994), that of 1e-10 is
\* 1e10, and with 1e-11 no coordinate is halfway.
ProductBelowHalf(precision) ==
    IF precision = 10
    THEN {215, 275, 485, 915, 1045, 1155, 1535, 1645, 1905}
    ELSE IF precision = 100
    THEN {50, 150, 250, 350, 450, 550, 650, 750, 850, 1050, 1150, 1250, 1350, 1450, 1550,
          1650, 1850, 1950}
    ELSE {}
\* (c * factor).round() as i64, with factor = 1.0 / precision: the integer is
\* given by the whole part of c and the precision steps of its fractional part
RoundedSteps(c, precision) ==
    IF precision.unit = Whole
    THEN <<c, 0>>
    ELSE <<0, RoundF64(c, precision.value, ProductBelowHalf(precision.value))>>
\* the closure point_key
point_key(p, precision) ==
    <<RoundedSteps(p.x, precision), RoundedSteps(p.y, precision), RoundedSteps(p.z, precision)>>

\* the points of the polygons k, k + 1, ..., in order
RECURSIVE Flatten(_, _)
Flatten(polygons, k) ==
    IF k > Len(polygons) THEN << >> ELSE polygons[k] \o Flatten(polygons, k + 1)

\* first pass, one point; st = [vertex_map, unique_vertices, seen]
CollectPoint(st, point, precision) ==
    LET key == point_key(point, precision)
    IN  IF ContainsKey(st.vertex_map, key)
        THEN [vertex_map |-> st.vertex_map, unique_vertices |-> st.unique_vertices,
              seen |-> st.seen + 1]
        ELSE [vertex_map |-> Insert(st.vertex_map, key, Len(st.unique_vertices)),
              unique_vertices |-> Append(st.unique_vertices, point),
              seen |-> st.seen + 1]
\* first pass over the points of all polygons
RECURSIVE CollectUnique(_, _, _)
CollectUnique(st, points, precision) ==
    IF st.seen >= Len(points)
    THEN st
    ELSE CollectUnique(CollectPoint(st, points[st.seen + 1], precision), points, precision)

\* polygon.iter().map(|point| mesh_vertex_keys[vertex_map[&point_key(point)]])
FaceVertices(polygon, vertex_map, mesh_vertex_keys, precision) ==
    [i \in 1..Len(polygon) |-> At(mesh_vertex_keys, vertex_map[point_key(polygon[i], precision)])]

\* variant: the fan stops one triangle early
FanTriangles_Short(n) == [i \in 1..(n - 3) |-> <<0, i, i + 1>>]
\* the fallback `for i in 1..polygon.len() - 1`: (0, i, i + 1)
FanTriangles(n) == [i \in 1..(n - 2) |-> <<0, i, i + 1>>]

\* the sums of Newell's method over the positions i, i + 1, ... (0-based)
RECURSIVE NewellNormal(_, _)
NewellNormal(polygon, i) ==
    IF i >= Len(polygon)
    THEN [x |-> 0, y |-> 0, z |-> 0]
    ELSE LET current == At(polygon, i)
             next == At(polygon, (i + 1) % Len(polygon))
             rest == NewellNormal(polygon, i + 1)
         IN  [x |-> (current.y - next.y) * (current.z + next.z) + rest.x,
              y |-> (current.z - next.z) * (current.x + next.x) + rest.y,
              z |-> (current.x - next.x) * (current.y + next.y) + rest.z]
\* length > 1e-10: a non-zero normal of whole coordinates has length >= 1, the
\* normal of a polygon of Fine coordinates is shorter than 1e-10
NormalIsLongEnough(normal, unit) ==
    unit = Whole /\ (normal.x # 0 \/ normal.y # 0 \/ normal.z # 0)
\* the plane is chosen by comparing the components of the normal; dividing
\* them by the length keeps their order
project_polygon_to_2d(polygon, unit) ==
    IF Len(polygon) < 3
    THEN << >>
    ELSE LET newell == NewellNormal(polygon, 0)
             normal == IF NormalIsLongEnough(newell, unit)
                       THEN newell
                       ELSE [x |-> 0, y |-> 0, z |-> 1]
             abs_x == Abs(normal.x)
             abs_y == Abs(normal.y)
             abs_z == Abs(normal.z)
         IN  IF abs_z >= abs_x /\ abs_z >= abs_y
             THEN [i \in 1..Len(polygon) |-> <<polygon[i].x, polygon[i].y>>]
             ELSE IF abs_y >= abs_x /\ abs_y >= abs_z
             THEN [i \in 1..Len(polygon) |-> <<polygon[i].x, polygon[i].z>>]
             ELSE [i \in 1..Len(polygon) |-> <<polygon[i].y, polygon[i].z>>]

\* second pass, one polygon; st = [mesh, assigned, added] as in from_polygons
MergeFacesStep(st, polygon, vertex_map, mesh_vertex_keys, precision) ==
    IF Len(polygon) < 3
    THEN [mesh |-> st.mesh, assigned |-> Append(st.assigned, << >>),
          added |-> Append(st.added, << >>)]
    ELSE LET face_vertices == FaceVertices(polygon, vertex_map, mesh_vertex_keys, precision)
             direct == mesh_add_face(st.mesh, face_vertices, None)
             triangles == earclip_triangulate(project_polygon_to_2d(polygon, precision.unit))
             out == IF Len(polygon) = 3
                    THEN [mesh |-> direct.mesh, rets |-> <<direct.ret>>]
                    ELSE AddTriangles([mesh |-> st.mesh, rets |-> << >>], face_vertices,
                                      IF triangles.ok THEN triangles.value
                                      ELSE FanTriangles(Len(polygon)))
         IN  [mesh |-> out.mesh, assigned |-> Append(st.assigned, face_vertices),
              added |-> Append(st.added, out.rets)]

\* second pass: the polygons without an entry in `assigned`, in order
RECURSIVE MergeFacesLoop(_, _, _, _, _)
MergeFacesLoop(st, polygons, vertex_map, mesh_vertex_keys, precision) ==
    IF Len(st.assigned) >= Len(polygons)
    THEN st
    ELSE MergeFacesLoop(MergeFacesStep(st, polygons[Len(st.assigned) + 1], vertex_map,
                                       mesh_vertex_keys, precision),
                        polygons, vertex_map, mesh_vertex_keys, precision)

\* from_polygons_with_merge(polygons, precision) on coordinates counted in `unit`
from_polygons_with_merge(polygons, precision, unit) ==
    LET prec == PrecisionOf(precision, unit)
        first == CollectUnique([vertex_map |-> EmptyMap, unique_vertices |-> << >>, seen |-> 0],
                               Flatten(polygons, 1), prec)
        verts == AddAllVertices([mesh |-> MeshNew, vertex_keys |-> << >>],
                                first.unique_vertices)
        st == MergeFacesLoop([mesh |-> verts.mesh, assigned |-> << >>, added |-> << >>],
                             polygons, first.vertex_map, verts.vertex_keys, prec)
    IN  [mesh |-> st.mesh, assigned |-> st.assigned, added |-> st.added]

\* ---- inputs of the polygon builders and of the ear clipping ----
\* planar points with even coordinates on three rows
GridPoints == {PointNew(2 * i, y, 0) : i \in 0..MaxGrid, y \in {0, 2, 4}}
PointLists == UNION {[1..n -> GridPoints] : n \in 2..MaxPolygonLen}
\* the corners and the centre of a square of side 4 and the middle of one of
\* its sides, and the lists of them
StarPoints ==
    {PointNew(0, 0, 0), PointNew(4, 0, 0), PointNew(4, 4, 0), PointNew(0, 4, 0),
     PointNew(2, 2, 0), PointNew(0, 2, 0)}
StarLists == UNION {[1..n -> StarPoints] : n \in 2..MaxStarLen}

\* the corner (i, j, k) of a cube of side 2 with one corner at the origin
CubeCorner(i, j, k) == PointNew(2 * i, 2 * j, 2 * k)
\* the six quads of test_from_polygons_cube: bottom, top, front, back, left, right
CubeFaces ==
    << <<CubeCorner(0, 0, 0), CubeCorner(1, 0, 0), CubeCorner(1, 1, 0), CubeCorner(0, 1, 0)>>,
       <<CubeCorner(0, 0, 1), CubeCorner(0, 1, 1), CubeCorner(1, 1, 1), CubeCorner(1, 0, 1)>>,
       <<CubeCorner(0, 0, 0), CubeCorner(0, 0, 1), CubeCorner(1, 0, 1), CubeCorner(1, 0, 0)>>,
       <<CubeCorner(0, 1, 0), CubeCorner(1, 1, 0), CubeCorner(1, 1, 1), CubeCorner(0, 1, 1)>>,
       <<CubeCorner(0, 0, 0), CubeCorner(0, 1, 0), CubeCorner(0, 1, 1), CubeCorner(0, 0, 1)>>,
       <<CubeCorner(1, 0, 0), CubeCorner(1, 0, 1), CubeCorner(1, 1, 1), CubeCorner(1, 1, 0)>> >>
FaceOrders == {f \in [1..6 -> 1..6] : \A i, j \in 1..6 : i # j => f[i] # f[j]}
\* the six quads in every order; in the order of the test with every choice of
\* winding per quad and a common starting corner; and with every choice of
\* starting corner per quad
CubeInputs ==
    {[i \in 1..6 |-> CubeFaces[f[i]]] : f \in FaceOrders}
    \cup {[i \in 1..6 |-> Rotate(IF w[i] THEN Reverse(CubeFaces[i]) ELSE CubeFaces[i], k)] :
             w \in [1..6 -> BOOLEAN], k \in 0..3}
    \cup {[i \in 1..6 |-> Rotate(CubeFaces[i], r[i])] : r \in [1..6 -> 0..3]}

\* one polygon of grid points that starts at the grid point (2, 2), in the
\* plane z = 0 and the same polygon in the planes y = 0 and x = 0
InPlane(polygon, plane) ==
    [i \in 1..Len(polygon) |->
        IF plane = "xy" THEN polygon[i]
        ELSE IF plane = "xz" THEN PointNew(polygon[i].x, 0, polygon[i].y)
        ELSE PointNew(0, polygon[i].x, polygon[i].y)]
SinglePolygonInputs ==
    {<<InPlane(ps, plane)>> : ps \in {l \in PointLists : l[1] = PointNew(2, 2, 0)},
                              plane \in {"xy", "xz", "yz"}}
\* one polygon over the points of the square, from any start
StarPolygonInputs == {<<ps>> : ps \in StarLists}

\* a list of at most 3 points followed by a triangle, over the corners of a
\* square and, in the unit Fine, more points at 4e-11, 6e-11, 3.5e-10, 4e-10
\* and 5e-10 from the first corner: 3.5e-10 is halfway between two multiples
\* of 1e-10 and 5e-10 between two multiples of 1e-9
PairPoints(unit) ==
    IF unit = Whole
    THEN {PointNew(0, 0, 0), PointNew(2, 0, 0), PointNew(0, 2, 0), PointNew(2, 2, 0)}
    ELSE {PointNew(0, 0, 0), PointNew(4, 0, 0), PointNew(6, 0, 0), PointNew(35, 0, 0),
          PointNew(40, 0, 0), PointNew(50, 0, 0), PointNew(200, 0, 0),
          PointNew(0, 200, 0), PointNew(200, 200, 0)}
PairTriangles(unit) ==
    IF unit = Whole
    THEN {<<PointNew(2, 0, 0), PointNew(2, 2, 0), PointNew(0, 2, 0)>>}
    ELSE {<<PointNew(200, 0, 0), PointNew(200, 200, 0), PointNew(0, 200, 0)>>,
          <<PointNew(4, 0, 0), PointNew(200, 0, 0), PointNew(0, 200, 0)>>}
PairInputs(unit) ==
    {<<first, second>> : first \in UNION {[1..n -> PairPoints(unit)] : n \in 0..3},
                         second \in PairTriangles(unit)}
\* None (1e-10), Some(1e-11) and Some(1e-9)
Precisions == {None, Some(1), Some(100)}
\* no Fine coordinate of the polygons, rounded to the precision, is halfway
\* between two steps of the 10 decimals of the key of from_polygons
IsFormatTieFree(polygons, precision, unit) ==
    \/ unit = Whole
    \/ UnwrapOr(precision, DefaultPrecision) >= FormatStep
    \/ \A k \in 1..Len(polygons) : \A i \in 1..Len(polygons[k]) :
           /\ 2 * (polygons[k][i].x % FormatStep) # FormatStep
           /\ 2 * (polygons[k][i].y % FormatStep) # FormatStep
           /\ 2 * (polygons[k][i].z % FormatStep) # FormatStep

\* the arguments of a builder call, before the call
PolygonInput(family, unit, polygons, precision) ==
    [name |-> "input", family |-> family, unit |-> unit, polygons |-> polygons,
     precision |-> precision, assigned |-> << >>, added |-> << >>]

\* ---- the polygon builders applied to an input ----
InitPolygons ==
    /\ halfedge = EmptyMap
    /\ vertex = EmptyMap
    /\ face = EmptyMap
    /\ facedata = EmptyMap
    /\ edgedata = EmptyMap
    /\ max_vertex = 0
    /\ max_face = 0
    /\ \/ \E ps \in CubeInputs : call = PolygonInput("cube", Whole, ps, None)
       \/ \E ps \in SinglePolygonInputs : call = PolygonInput("single", Whole, ps, None)
       \/ \E ps \in StarPolygonInputs : call = PolygonInput("star", Whole, ps, None)
       \/ \E unit \in {Whole, Fine} : \E ps \in PairInputs(unit), p \in Precisions :
              /\ IsFormatTieFree(ps, p, unit)
              /\ call = PolygonInput("pair", unit, ps, p)
    /\ steps = 0

\* Mesh::from_polygons(polygons, precision)
FromPolygons ==
    /\ call.name = "input"
    /\ \E out \in {from_polygons(call.polygons, call.precision, call.unit)} :
           /\ InstallMesh(out.mesh)
           /\ call' = [call EXCEPT !.name = "from_polygons", !.assigned = out.assigned,
                                   !.added = out.added]
    /\ steps' = steps + 1

\* Mesh::from_polygons_with_merge(polygons, precision)
FromPolygonsWithMerge ==
    /\ call.name = "input"
    /\ \E out \in {from_polygons_with_merge(call.polygons, call.precision, call.unit)} :
           /\ InstallMesh(out.mesh)
           /\ call' = [call EXCEPT !.name = "from_polygons_with_merge",
                                   !.assigned = out.assigned, !.added = out.added]
    /\ steps' = steps + 1

NextPolygons ==
    \/ FromPolygons
    \/ FromPolygonsWithMerge

SpecPolygons == InitPolygons /\ [][NextPolygons]_vars

\* ---- from_polygon_earclip and the passes of earclip_triangulate ----
\* `call` is the frame of the running call: the argument, the position in
\* earclip_triangulate (pc), its locals and its return value
EarclipInput(p) ==
    [name |-> "input", points |-> p, pc |-> "start", polygon_points |-> << >>,
     was_reversed |-> FALSE, indices |-> << >>, triangles |-> << >>,
     passes |-> 0, ret |-> Err("")]
InitEarclip ==
    /\ halfedge = EmptyMap
    /\ vertex = EmptyMap
    /\ face = EmptyMap
    /\ facedata = EmptyMap
    /\ edgedata = EmptyMap
    /\ max_vertex = 0
    /\ max_face = 0
    /\ \/ \E p \in PointLists : call = EarclipInput(p)
       \/ \E p \in StarLists : call = EarclipInput(p)
    /\ steps = 0

\* earclip_triangulate up to the loop: the two early returns, the orientation
\* test and the initial index list
EarclipStart ==
    /\ call.name = "input"
    /\ LET points == Points2D(call.points)
           was_reversed == WasReversed(compute_signed_area(points))
       IN  call' = IF Len(points) < 3
                   THEN [call EXCEPT !.name = "earclip_triangulate", !.pc = "done",
                                     !.ret = Err("Polygon must have at least 3 vertices")]
                   ELSE IF Len(points) = 3
                   THEN [call EXCEPT !.name = "earclip_triangulate", !.pc = "done",
                                     !.ret = Ok(<< <<0, 1, 2>> >>)]
                   ELSE [call EXCEPT !.name = "earclip_triangulate", !.pc = "loop",
                                     !.polygon_points = IF was_reversed THEN Reverse(points)
                                                        ELSE points,
                                     !.was_reversed = was_reversed,
                                     !.indices = InitialIndices(Len(points))]
    /\ steps' = steps + 1
    /\ UNCHANGED <<halfedge, vertex, face, facedata, edgedata, max_vertex, max_face>>

\* one pass of the while loop: an ear is clipped, or the call returns the error
EarclipPassStep ==
    /\ call.name = "earclip_triangulate" /\ call.pc = "loop"
    /\ Len(call.indices) > 3
    /\ \E out \in {EarclipPass(call.polygon_points,
                               [ear_found |-> TRUE, indices |-> call.indices,
                                triangles |-> call.triangles])} :
           call' = IF out.ear_found
                   THEN [call EXCEPT !.indices = out.indices, !.triangles = out.triangles,
                                     !.passes = @ + 1]
                   ELSE [call EXCEPT !.pc = "done", !.passes = @ + 1,
                                     !.ret = Err("Unable to find valid ear for triangulation")]
    /\ steps' = steps + 1
    /\ UNCHANGED <<halfedge, vertex, face, facedata, edgedata, max_vertex, max_face>>

\* after the loop: the final triangle, the indices mapped back, Ok(triangles)
EarclipFinish ==
    /\ call.name = "earclip_triangulate" /\ call.pc = "loop"
    /\ Len(call.indices) <= 3
    /\ call' = [call EXCEPT !.pc = "done",
                            !.ret = Ok(MapBack(WithFinalTriangle([indices |-> call.indices,
                                                                  triangles |-> call.triangles]),
                                               call.was_reversed, Len(call.points)))]
    /\ steps' = steps + 1
    /\ UNCHANGED <<halfedge, vertex, face, facedata, edgedata, max_vertex, max_face>>

\* Mesh::from_polygon_earclip(polygon_points)
FromPolygonEarclip ==
    /\ call.name = "input"
    /\ InstallMesh(from_polygon_earclip(call.points))
    /\ call' = [call EXCEPT !.name = "from_polygon_earclip", !.pc = "done"]
    /\ steps' = steps + 1

NextEarclip ==
    \/ EarclipStart
    \/ EarclipPassStep
    \/ EarclipFinish
    \/ FromPolygonEarclip

SpecEarclip == InitEarclip /\ [][NextEarclip]_vars

\* the runs on the lists of the corners and the centre of the square, from
\* any of them, in which a call that has started runs on until it returns
InitEarclipFair ==
    /\ InitEarclip
    /\ call.points \in StarLists
    /\ \A i \in 1..Len(call.points) : call.points[i] # PointNew(0, 2, 0)
SpecEarclipFair == InitEarclipFair /\ [][NextEarclip]_vars /\ WF_vars(NextEarclip)
\* ======================================================================
\* Vector
\* ======================================================================
\* The coordinates of a pipe call, a line or a polyline are counted in Micro
\* (5e-7, so that 1e-6 is 2 units); those of a polyline may be counted in
\* Whole (1.0) instead.
Micro == "5e-7"
\* A Vector is (x, y, z) / sqrt(over): unitize divides by the length, whose
\* square is kept in "over"; a vector that was never divided has over = 1.
VectorNew(x, y, z) == [x |-> x, y |-> y, z |-> z, over |-> 1]
\* &p1 - &p0 and Vector - Vector
VectorSub(a, b) == VectorNew(a.x - b.x, a.y - b.y, a.z - b.z)
\* Vector::cross
VectorCross(a, b) ==
    VectorNew(a.y * b.z - a.z * b.y, a.z * b.x - a.x * b.z, a.x * b.y - a.y * b.x)
\* Vector::length_squared, in squared units of the components
VectorLengthSquared(v) == v.x * v.x + v.y * v.y + v.z * v.z
\* length_squared < 1e-10 in Vector::unitize, that is a length below 1e-5.
\* The components of a cross product of Whole coordinates are integers; those
\* of Fine coordinates are multiples of 1e-22 below 1e-15, and those of Micro
\* coordinates (points less than 1e-3 apart) multiples of 2.5e-13 below 2e-6.
IsBelowUnitizeTolerance(v, unit) ==
    IF unit = Whole THEN VectorLengthSquared(v) = 0 ELSE TRUE
\* Vector::unitize: the flag it returns and the vector it leaves behind
unitize(v, unit) ==
    IF IsBelowUnitizeTolerance(v, unit)
    THEN [ret |-> FALSE, vector |-> v]
    ELSE [ret |-> TRUE, vector |-> [v EXCEPT !.over = VectorLengthSquared(v)]]
\* ---- create_pipe ----
\* The coordinates of the points of a pipe call are counted in Micro, units of
\* 5e-7, so that 1e-6 is 2 units; a radius is counted in units of 0.05.
PipeEpsilon == 2
\* direction.length(), squared
LengthSquared(start, end) ==
    (end.x - start.x) * (end.x - start.x) + (end.y - start.y) * (end.y - start.y)
        + (end.z - start.z) * (end.z - start.z)
\* whether one coordinate of the direction is alone longer than 1e-6, for
\* coordinates counted in 5e-7 / over; the length is then above 1e-6 whatever
\* the other two are
ExceedsEpsilon(d, over) == d > PipeEpsilon * over \/ -d > PipeEpsilon * over
\* let length = direction.length(), compared with 1e-6: the values the
\* comparison can have for points counted in 5e-7 / over (over is 1 for the
\* points of meshes and polylines; the coordinates of a line that was divided
\* are fractions of the unit).  A count of units names the f64 next to that
\* many units, and the f64 of a coordinate depends on how it was computed.
\* When the counts are exactly 1e-6 apart the computed length is 1e-6 or a
\* neighbour of it: 1e-6 for (0, 0, 0) and (1e-6, 0, 0),
\* 9.999999999999997e-07 for (2.5e-6, 0, 0) and (3.5e-6, 0, 0) or for the line
\* (0, 0, 0), (0, 1e-6, 0) after adding (1e-6, 1e-6, 1e-6) three times.  Any
\* other length is away from 1e-6 by more than the rounding, for coordinates
\* of at most 1.0 in size and over at most 1024.
DirectionLength(start, end, over) ==
    IF \/ ExceedsEpsilon(end.x - start.x, over)
       \/ ExceedsEpsilon(end.y - start.y, over)
       \/ ExceedsEpsilon(end.z - start.z, over)
    THEN {"above"}
    ELSE IF LengthSquared(start, end) = PipeEpsilon * PipeEpsilon * over * over
    THEN {"below", "equal", "above"}
    ELSE IF LengthSquared(start, end) < PipeEpsilon * PipeEpsilon * over * over
    THEN {"below"}
    ELSE {"above"}
\* variant: a segment of length 1e-6 is degenerate too
IsDegenerate_Closed(length) == length \in {"below", "equal"}
\* if length < 1e-6
IsDegenerate(length) == length = "below"

\* the number of entries of unit_vertices
UnitVertexCount == 26
\* unit_vertices[i]: the coordinates of a unit vertex are not computed, each
\* is named by its axis and the index of the vertex
UnitVertex(i) == PointNew(<<"x", i>>, <<"y", i>>, <<"z", i>>)
\* transform.transform_point(&vertex): a coordinate of the image is named by
\* the coordinate of the unit vertex and the segment (its points and their
\* unit 5e-7 / over) and radius that define the transform
TransformPoint(point, start, end, over, radius) ==
    PointNew(<<point.x, start, end, over, radius>>, <<point.y, start, end, over, radius>>,
             <<point.z, start, end, over, radius>>)
\* the vector `faces`: bottom cap, top cap, sides
PipeFaces ==
    << <<0, 2, 1>>, <<0, 3, 2>>, <<0, 4, 3>>, <<0, 5, 4>>,
       <<0, 6, 5>>, <<0, 7, 6>>, <<0, 8, 7>>, <<0, 9, 8>>,
       <<0, 10, 9>>, <<0, 11, 10>>, <<0, 12, 11>>, <<0, 1, 12>>,
       <<13, 14, 15>>, <<13, 15, 16>>, <<13, 16, 17>>, <<13, 17, 18>>,
       <<13, 18, 19>>, <<13, 19, 20>>, <<13, 20, 21>>, <<13, 21, 22>>,
       <<13, 22, 23>>, <<13, 23, 24>>, <<13, 24, 25>>, <<13, 25, 14>>,
       <<1, 2, 14>>, <<14, 2, 15>>, <<2, 3, 15>>, <<15, 3, 16>>,
       <<3, 4, 16>>, <<16, 4, 17>>, <<4, 5, 17>>, <<17, 5, 18>>,
       <<5, 6, 18>>, <<18, 6, 19>>, <<6, 7, 19>>, <<19, 7, 20>>,
       <<7, 8, 20>>, <<20, 8, 21>>, <<8, 9, 21>>, <<21, 9, 22>>,
       <<9, 10, 22>>, <<22, 10, 23>>, <<10, 11, 23>>, <<23, 11, 24>>,
       <<11, 12, 24>>, <<24, 12, 25>>, <<12, 1, 25>>, <<25, 1, 14>> >>

\* the mesh the two loops of create_pipe build from untransformed vertices
UnitPipe ==
    LET st == AddAllVertices([mesh |-> MeshNew, vertex_keys |-> << >>],
                             [i \in 1..UnitVertexCount |-> UnitVertex(i - 1)])
    IN  AddTriangles([mesh |-> st.mesh, rets |-> << >>], st.vertex_keys, PipeFaces).mesh
\* Mesh::create_pipe(start, end, radius) when direction.length() compares with
\* 1e-6 as `length` says: the transform acts on the position of each vertex
\* before it is added and on nothing else
PipeOfLength(length, start, end, over, radius) ==
    IF IsDegenerate(length)
    THEN MeshNew
    ELSE [UnitPipe EXCEPT !.vertex =
             [k \in DOMAIN UnitPipe.vertex |->
                 VertexDataNew(TransformPoint(UnitPipe.vertex[k], start, end, over, radius))]]
\* Mesh::create_pipe(start, end, radius) for points counted in 5e-7 / over:
\* the meshes it can return, one for each value of the computed length
create_pipe(start, end, over, radius) ==
    {PipeOfLength(length, start, end, over, radius) :
        length \in DirectionLength(start, end, over)}
\* the sequences whose i-th item is one of sets[i]
RECURSIVE Choices(_)
Choices(sets) ==
    IF sets = << >>
    THEN {<< >>}
    ELSE {<<item>> \o rest : item \in Head(sets), rest \in Choices(Tail(sets))}

\* ---- Plane::plane_from_points and Pline::new ----
\* The points of a polyline are counted in Micro or in Whole.  A direction
\* between Micro points is counted in 5e-7, a cross product of two of them
\* in 2.5e-13 and the normal of plane_from_two_points in 1.25e-19.
\* x_axis.z.abs() < 0.9
IsBelowNineTenths(z, unit) ==
    IF unit = Whole THEN z = 0 ELSE z < 1800000 /\ -z < 1800000
\* cross.length() > 1e-10: the values the test can have.  The cross product
\* of Whole points is exact.  That of Micro points is built from rounded
\* products, so when its exact length is 1e-10 (400 units of 2.5e-13) the
\* computed length is 1e-10 or a neighbour of it (1.0000000000000002e-10 for
\* the points (0, 0, 0), (1e-5, 0, 0), (1e-5, 1e-5, 0)), and the test goes
\* either way with the points; any other length is a whole unit away from the
\* tolerance.
IsAboveCrossTolerance(cross, unit) ==
    IF unit = Whole THEN {VectorLengthSquared(cross) > 0}
    ELSE IF VectorLengthSquared(cross) = 400 * 400 THEN BOOLEAN
    ELSE {VectorLengthSquared(cross) > 400 * 400}
\* Plane::from_point_normal(point, normal): it panics with "Normal vector
\* cannot be zero length" when unitize refuses the normal; of the plane the
\* origin and the z axis are kept
from_point_normal(point, normal, unit) ==
    LET zaxis == unitize(normal, unit)
    IN  [panicked |-> ~zaxis.ret, origin |-> point, zaxis |-> zaxis.vector]
\* Plane::plane_from_two_points(p1, p2)
plane_from_two_points(p1, p2, unit) ==
    LET x_axis == VectorSub(p2, p1)
        y_guess == IF IsBelowNineTenths(x_axis.z, unit)
                   THEN VectorNew(0, 0, 1) ELSE VectorNew(0, 1, 0)
        z_axis == VectorCross(x_axis, y_guess)
        y_axis == VectorCross(z_axis, x_axis)
        normal == VectorCross(x_axis, y_axis)
    IN  from_point_normal(p1, normal, unit)
\* the body of the loop over the triplets of consecutive points, for each
\* value of the tolerance test; st = [normal_sum, normal_count, i], i the
\* triplets already visited
AddTripletCross(st, points, unit) ==
    LET v1 == VectorSub(points[st.i + 2], points[st.i + 1])
        v2 == VectorSub(points[st.i + 3], points[st.i + 2])
        cross == VectorCross(v1, v2)
    IN  {IF above
         THEN [normal_sum |-> VectorNew(st.normal_sum.x + cross.x, st.normal_sum.y + cross.y,
                                        st.normal_sum.z + cross.z),
               normal_count |-> st.normal_count + 1, i |-> st.i + 1]
         ELSE [st EXCEPT !.i = st.i + 1] : above \in IsAboveCrossTolerance(cross, unit)}
\* the loop over the triplets: the states it can end in
RECURSIVE AddTripletCrosses(_, _, _)
AddTripletCrosses(st, points, unit) ==
    IF st.i >= Len(points) - 2
    THEN {st}
    ELSE UNION {AddTripletCrosses(next, points, unit) :
                   next \in AddTripletCross(st, points, unit)}
\* Plane::plane_from_points(points): the planes it can return, one for each
\* way the tolerance tests can go; the planes of no point and of one point
\* are built without unitize.  The mean of the cross products is their sum
\* over sqrt(normal_count^2).
plane_from_points(points, unit) ==
    IF Len(points) = 0
    THEN {[panicked |-> FALSE, origin |-> PointNew(0, 0, 0), zaxis |-> VectorNew(0, 0, 1)]}
    ELSE IF Len(points) = 1
    THEN {[panicked |-> FALSE, origin |-> points[1], zaxis |-> VectorNew(0, 0, 1)]}
    ELSE IF Len(points) >= 3
    THEN {IF st.normal_count > 0
          THEN from_point_normal(points[1],
                   [st.normal_sum EXCEPT !.over = st.normal_count * st.normal_count], unit)
          ELSE plane_from_two_points(points[1], points[2], unit) :
             st \in AddTripletCrosses([normal_sum |-> VectorNew(0, 0, 0), normal_count |-> 0,
                                       i |-> 0], points, unit)}
    ELSE {plane_from_two_points(points[1], points[2], unit)}
\* Pline::new(points): the polylines it can return; it panics when
\* plane_from_points does
PlineNew(points, unit) ==
    {[panicked |-> plane.panicked, points |-> points, plane |-> plane] :
        plane \in plane_from_points(points, unit)}

\* ---- Pline::to_pipe_meshes ----
\* a point counted in `unit`, counted in Micro: 1.0 is 2000000 units of 5e-7
InMicro(point, unit) ==
    IF unit = Whole
    THEN PointNew(point.x * 2000000, point.y * 2000000, point.z * 2000000)
    ELSE point
\* the points of a polyline, counted in Micro
PointsInMicro(points, unit) == [i \in 1..Len(points) |-> InMicro(points[i], unit)]
\* the fallback radius 0.05
FallbackRadius == 1
\* radius.unwrap_or_else(|| if thickness > 0.0 { thickness } else { 0.05 })
PipeRadius(radius, thickness) ==
    IF IsSome(radius) THEN Unwrap(radius)
    ELSE IF thickness > 0 THEN thickness ELSE FallbackRadius
\* to_pipe_meshes(radius, sides) of a polyline with the given points and data
\* thickness (the colour of the data is not modelled): the vectors it can
\* return, a pipe for each segment; `sides` is not used
to_pipe_meshes(points, thickness, radius, sides) ==
    IF Len(points) < 2
    THEN {<< >>}
    ELSE Choices([i \in 1..(Len(points) - 1) |->
                     create_pipe(points[i], points[i + 1], 1,
                                 PipeRadius(radius, thickness))])

\* ---- extract_edges_as_lines, extract_edges_as_pipes ----
\* Line::new(x0, y0, z0, x1, y1, z1)
LineNew(x0, y0, z0, x1, y1, z1) ==
    [x0 |-> x0, y0 |-> y0, z0 |-> z0, x1 |-> x1, y1 |-> y1, z1 |-> z1]
\* vertex_position(vertex_key)
vertex_position(m, vertex_key) ==
    IF ContainsKey(m.vertex, vertex_key)
    THEN Some(PointNew(m.vertex[vertex_key].x, m.vertex[vertex_key].y, m.vertex[vertex_key].z))
    ELSE None
\* self.face.values() yields the faces in an order the hash map chooses
FaceOrdersOf(fs) ==
    {order \in [1..Cardinality(DOMAIN fs) -> DOMAIN fs] :
        \A i, j \in 1..Cardinality(DOMAIN fs) : i # j => order[i] # order[j]}
\* the pairs (v1, v2) the two loops visit, from the k-th face of the order on
RECURSIVE VisitedPairs(_, _, _)
VisitedPairs(fs, order, k) ==
    IF k > Len(order)
    THEN << >>
    ELSE [i \in 1..Len(fs[order[k]]) |-> <<fs[order[k]][i], NextInFace(fs[order[k]], i)>>]
             \o VisitedPairs(fs, order, k + 1)
\* let edge = if v1 < v2 { (v1, v2) } else { (v2, v1) }
EdgeKey(v1, v2) == IF v1 < v2 THEN <<v1, v2>> ELSE <<v2, v1>>
\* the body of the inner loop; st = [unique_edges, kept, seen], `kept` the
\* position pairs of the edges for which an item is pushed
VisitPair(st, m, pair) ==
    LET edge == EdgeKey(pair[1], pair[2])
        pos1 == vertex_position(m, pair[1])
        pos2 == vertex_position(m, pair[2])
    IN  IF edge \in st.unique_edges
        THEN [unique_edges |-> st.unique_edges, kept |-> st.kept, seen |-> st.seen + 1]
        ELSE IF IsSome(pos1) /\ IsSome(pos2)
        THEN [unique_edges |-> st.unique_edges \cup {edge},
              kept |-> Append(st.kept, <<Unwrap(pos1), Unwrap(pos2)>>), seen |-> st.seen + 1]
        ELSE [unique_edges |-> st.unique_edges \cup {edge}, kept |-> st.kept,
              seen |-> st.seen + 1]
RECURSIVE VisitPairs(_, _, _)
VisitPairs(st, m, pairs) ==
    IF st.seen >= Len(pairs)
    THEN st
    ELSE VisitPairs(VisitPair(st, m, pairs[st.seen + 1]), m, pairs)
\* the two loops of both extract functions
KeptEdges(m, order) ==
    VisitPairs([unique_edges |-> {}, kept |-> << >>, seen |-> 0], m,
               VisitedPairs(m.face, order, 1)).kept
\* extract_edges_as_lines(), the faces visited in `order`
extract_edges_as_lines(m, order) ==
    LET kept == KeptEdges(m, order)
    IN  [i \in 1..Len(kept) |-> LineNew(kept[i][1].x, kept[i][1].y, kept[i][1].z,
                                        kept[i][2].x, kept[i][2].y, kept[i][2].z)]
\* extract_edges_as_pipes(radius, _sides), the faces visited in `order`: the
\* vectors it can return
extract_edges_as_pipes(m, radius, sides, order) ==
    LET kept == KeptEdges(m, order)
    IN  Choices([i \in 1..Len(kept) |-> create_pipe(kept[i][1], kept[i][2], 1, radius)])

\* ---- the pipe and edge functions applied to their inputs ----
\* multiples of 5e-7 whose differences of 1e-6 are computed exactly
PipeCoords == <<0, 1, 2, 4>>
\* 2.5e-6 and 3.5e-6, whose computed difference is 9.999999999999997e-07
RoundedCoords == <<5, 7>>
PipePoints == {PointNew(PipeCoords[k], 0, 0) : k \in 1..Len(PipeCoords)}
\* points of a polyline counted in Whole: along x, off the x axis, along z
WholePoints == {PointNew(0, 0, 0), PointNew(1, 0, 0), PointNew(1, 1, 0), PointNew(0, 0, 1)}
\* points of a polyline counted in Micro, 1e-5 apart: the cross product of
\* three of them is zero, 1e-10 (the tolerance of plane_from_points) or
\* 1.05e-10
TolerancePoints ==
    {PointNew(0, 0, 0), PointNew(20, 0, 0), PointNew(20, 20, 0), PointNew(20, 21, 0)}
\* the points of a polyline with their unit
PlinePoints ==
    {[unit |-> Micro, points |-> ps] :
        ps \in UNION {[1..n -> PipePoints] : n \in 0..MaxPlinePoints}}
    \cup {[unit |-> Micro, points |-> ps] :
        ps \in UNION {[1..n -> TolerancePoints] : n \in 3..MaxPlinePoints}}
    \cup {[unit |-> Whole, points |-> ps] :
        ps \in UNION {[1..n -> WholePoints] : n \in 0..MaxPlinePoints}}
PipeEnds ==
    {PointNew(PipeCoords[k], y, 0) : k \in 1..Len(PipeCoords), y \in {0, 1}}
    \cup {PointNew(RoundedCoords[2], 0, 0)}
PipeStarts == {PointNew(0, 0, 0), PointNew(2, 0, 0), PointNew(RoundedCoords[1], 0, 0)}
Sides == {None, Some(12)}
Radii == {None, Some(2)}
PipeCallInputs ==
    {[family |-> "create_pipe", name |-> "input", start |-> s, end |-> e, radius |-> 2,
      length |-> "", ret |-> << >>] : s \in PipeStarts, e \in PipeEnds}
PlineInputs ==
    {[family |-> "to_pipe_meshes", name |-> "input", unit |-> p.unit, points |-> p.points,
      thickness |-> t, radius |-> r, sides |-> s, ret |-> << >>] :
        p \in PlinePoints, t \in {0, 20}, r \in Radii, s \in Sides}
MeshInputs ==
    {[family |-> "mesh", name |-> "input", radius |-> 2, sides |-> None, ret |-> << >>]}
\* the mesh of the calls has a vertex with an auto key at each of these
\* multiples of 5e-7: its edges are shorter than 1e-6, 1e-6 long or longer
MeshCoords == <<0, 1, 2, 5>>
PipeVertices ==
    AddAllVertices([mesh |-> MeshNew, vertex_keys |-> << >>],
                   [k \in 1..Len(MeshCoords) |-> PointNew(MeshCoords[k], 0, 0)])
\* triangles over the vertices, written in ascending order of the keys, and
\* one written the other way round
PipeTriangles ==
    {t \in [1..3 -> {PipeVertices.vertex_keys[k] : k \in 1..Len(MeshCoords)}] :
        t[1] < t[2] /\ t[2] < t[3]}
    \cup {<<PipeVertices.vertex_keys[1], PipeVertices.vertex_keys[3],
            PipeVertices.vertex_keys[2]>>}

InitPipes ==
    /\ halfedge = PipeVertices.mesh.halfedge
    /\ vertex = PipeVertices.mesh.vertex
    /\ face = EmptyMap
    /\ facedata = EmptyMap
    /\ edgedata = EmptyMap
    /\ max_vertex = PipeVertices.mesh.max_vertex
    /\ max_face = 0
    /\ call \in PipeCallInputs \cup PlineInputs \cup MeshInputs
    /\ steps = 0

\* Mesh::create_pipe(start, end, radius); `call.length` keeps how the computed
\* length compared with 1e-6
CreatePipe ==
    /\ call.family = "create_pipe" /\ call.name = "input"
    /\ \E length \in DirectionLength(call.start, call.end, 1) :
           call' = [call EXCEPT !.name = "create_pipe", !.length = length,
                                !.ret = PipeOfLength(length, call.start, call.end, 1,
                                                     call.radius)]
    /\ steps' = steps + 1
    /\ UNCHANGED <<halfedge, vertex, face, facedata, edgedata, max_vertex, max_face>>

\* Pline::new(points), which may panic; then, with the data thickness set,
\* to_pipe_meshes(radius, sides)
ToPipeMeshes ==
    /\ call.family = "to_pipe_meshes" /\ call.name = "input"
    /\ \E pline \in PlineNew(call.points, call.unit) :
           IF pline.panicked
           THEN call' = [call EXCEPT !.name = "panic"]
           ELSE \E meshes \in to_pipe_meshes(PointsInMicro(pline.points, call.unit),
                                              call.thickness, call.radius, call.sides) :
                    call' = [call EXCEPT !.name = "to_pipe_meshes", !.ret = meshes]
    /\ steps' = steps + 1
    /\ UNCHANGED <<halfedge, vertex, face, facedata, edgedata, max_vertex, max_face>>

\* add_face(vertices, fkey) on the mesh of the calls
PipesAddFace(vertices, fkey) ==
    /\ call.family = "mesh"
    /\ steps < MaxFaceCalls
    /\ \E out \in {add_face(halfedge, vertex, face, max_face, vertices, fkey)} :
           /\ halfedge' = out.halfedge
           /\ face' = out.face
           /\ max_face' = out.max_face
           /\ call' = [call EXCEPT !.name = "add_face", !.ret = out.ret]
    /\ steps' = steps + 1
    /\ UNCHANGED <<vertex, facedata, edgedata, max_vertex>>

\* extract_edges_as_lines()
ExtractEdgesAsLines ==
    /\ call.family = "mesh"
    /\ \E order \in FaceOrdersOf(face) :
           call' = [call EXCEPT !.name = "extract_edges_as_lines",
                                !.ret = extract_edges_as_lines(MeshOfState, order)]
    /\ UNCHANGED <<halfedge, vertex, face, facedata, edgedata, max_vertex, max_face, steps>>

\* extract_edges_as_pipes(radius, sides)
ExtractEdgesAsPipes(radius, sides) ==
    /\ call.family = "mesh"
    /\ \E order \in FaceOrdersOf(face) :
           \E pipes \in extract_edges_as_pipes(MeshOfState, radius, sides, order) :
               call' = [call EXCEPT !.name = "extract_edges_as_pipes", !.radius = radius,
                                    !.sides = sides, !.ret = pipes]
    /\ UNCHANGED <<halfedge, vertex, face, facedata, edgedata, max_vertex, max_face, steps>>

NextPipes ==
    \/ CreatePipe
    \/ ToPipeMeshes
    \/ \E vertices \in PipeTriangles, fkey \in {None, Some(0)} : PipesAddFace(vertices, fkey)
    \/ ExtractEdgesAsLines
    \/ \E sides \in Sides : ExtractEdgesAsPipes(2, sides)

SpecPipes == InitPipes /\ [][NextPipes]_vars


\* ======================================================================
\* Normals: Mesh::face_normal and the renderable ModelMesh
\* ======================================================================
\* Mesh::face_normal(face_key)
face_normal(m, face_key, unit) ==
    IF ~ContainsKey(m.face, face_key) THEN None
    ELSE LET vertices == m.face[face_key] IN
         IF Len(vertices) < 3 THEN None
         ELSE LET p0 == vertex_position(m, vertices[1])
                  p1 == vertex_position(m, vertices[2])
                  p2 == vertex_position(m, vertices[3])
              IN  IF ~IsSome(p0) \/ ~IsSome(p1) \/ ~IsSome(p2) THEN None
                  ELSE LET edge1 == VectorSub(Unwrap(p1), Unwrap(p0))
                           edge2 == VectorSub(Unwrap(p2), Unwrap(p0))
                           normal == VectorCross(edge1, edge2)
                       IN  Some(unitize(normal, unit).vector)

\* ---- ModelMesh ----
\* the members of a set of numbers in increasing order
RECURSIVE SortedSeq(_)
SortedSeq(S) ==
    IF S = {} THEN << >>
    ELSE LET least == CHOOSE x \in S : \A y \in S : x <= y
         IN  <<least>> \o SortedSeq(S \ {least})
\* assert!(length > 0.0) in Vector::normalize
NormalizePanics(v) == VectorLengthSquared(v) = 0
\* the cross product calculate_normals takes of the triangle (i0, i1, i2)
TriangleCross(vertices, triangle) ==
    VectorCross(VectorSub(At(vertices, triangle[2]), At(vertices, triangle[1])),
                VectorSub(At(vertices, triangle[3]), At(vertices, triangle[1])))
\* ModelMesh::calculate_normals: it panics in normalize at the first triangle
\* whose cross product is zero; otherwise vertex i gets the normalised mean
\* of the unit normals of its triangles, kept here as the list of their
\* cross products
calculate_normals(vertices, indices) ==
    IF \E t \in 1..Len(indices) : NormalizePanics(TriangleCross(vertices, indices[t]))
    THEN [panicked |-> TRUE, normals |-> << >>]
    ELSE [panicked |-> FALSE,
          normals |-> [i \in 1..Len(vertices) |->
              LET mine == SortedSeq({t \in 1..Len(indices) :
                              \E k \in 1..3 : indices[t][k] = i - 1})
              IN  [n \in 1..Len(mine) |-> TriangleCross(vertices, indices[mine[n]])]]]
\* first pass of from_halfedge_mesh: the keys of vertex_key_to_index, in the
\* order of their indices; order is the order in which get_face_data yields
\* the faces
IndexedVertices(m, order) ==
    LET visited == Flatten([k \in 1..Len(order) |-> m.face[order[k]]], 1)
        first == SortedSeq({i \in 1..Len(visited) :
                     /\ IsSome(vertex_position(m, visited[i]))
                     /\ \A j \in 1..(i - 1) : visited[j] # visited[i]})
    IN  [n \in 1..Len(first) |-> visited[first[n]]]
\* vertex_key_to_index.get(&key)
IndexOfVertex(keys, key) ==
    IF \E n \in 1..Len(keys) : keys[n] = key
    THEN Some((CHOOSE n \in 1..Len(keys) : keys[n] = key) - 1)
    ELSE None
\* second pass, one face: the fan (0, i, i + 1) in mapped indices, without
\* the triangles that have an unmapped vertex
FanIndices(keys, vs) ==
    IF Len(vs) < 3
    THEN << >>
    ELSE LET good == SortedSeq({i \in 1..(Len(vs) - 2) :
                         \A v \in {vs[1], vs[i + 1], vs[i + 2]} :
                             IsSome(IndexOfVertex(keys, v))})
         IN  [n \in 1..Len(good) |->
                 <<Unwrap(IndexOfVertex(keys, vs[1])),
                   Unwrap(IndexOfVertex(keys, vs[good[n] + 1])),
                   Unwrap(IndexOfVertex(keys, vs[good[n] + 2]))>>]
\* ModelMesh::from_halfedge_mesh(mesh)
from_halfedge_mesh(m, order) ==
    LET keys == IndexedVertices(m, order)
        vertex_positions == [n \in 1..Len(keys) |-> Unwrap(vertex_position(m, keys[n]))]
        indices == Flatten([k \in 1..Len(order) |-> FanIndices(keys, m.face[order[k]])], 1)
        normals == calculate_normals(vertex_positions, indices)
    IN  [panicked |-> normals.panicked,
         vertices |-> vertex_positions,
         indices |-> indices,
         normals |-> normals.normals,
         vertex_count |-> Len(vertex_positions),
         triangle_count |-> Len(indices)]

\* ---- face normals and renderable meshes of the polygon builders ----
\* single polygons and pairs of triangles; the cube is left to SpecPolygons
InitNormals == InitPolygons /\ call.family # "cube"

\* mesh.face_normal(face_key) on the mesh a builder returned
FaceNormal(face_key) ==
    /\ call.name \in {"from_polygons", "from_polygons_with_merge"}
    /\ call' = [name |-> "face_normal", family |-> call.family, unit |-> call.unit,
                polygons |-> call.polygons, face_key |-> face_key,
                ret |-> face_normal(MeshOfState, face_key, call.unit)]
    /\ steps' = steps + 1
    /\ UNCHANGED <<halfedge, vertex, face, facedata, edgedata, max_vertex, max_face>>

\* ModelMesh::from_halfedge_mesh(&mesh) on the mesh a builder returned.  The
\* positions are cast to f32, which is exact for Whole coordinates.
ModelMeshFromHalfedgeMesh ==
    /\ call.name \in {"from_polygons", "from_polygons_with_merge"}
    /\ call.unit = Whole
    /\ \E order \in FaceOrdersOf(face) :
           call' = [name |-> "from_halfedge_mesh", family |-> call.family, unit |-> call.unit,
                    polygons |-> call.polygons, builder |-> call.name,
                    ret |-> from_halfedge_mesh(MeshOfState, order)]
    /\ steps' = steps + 1
    /\ UNCHANGED <<halfedge, vertex, face, facedata, edgedata, max_vertex, max_face>>

\* ModelMesh::from_polygons(polygons, precision)
ModelMeshFromPolygons ==
    /\ call.name = "input"
    /\ call.unit = Whole
    /\ \E out \in {from_polygons_with_merge(call.polygons, call.precision, call.unit)} :
       \E order \in FaceOrdersOf(out.mesh.face) :
           call' = [name |-> "model_mesh_from_polygons", family |-> call.family,
                    unit |-> call.unit, polygons |-> call.polygons,
                    builder |-> "from_polygons_with_merge",
                    ret |-> from_halfedge_mesh(out.mesh, order)]
    /\ steps' = steps + 1
    /\ UNCHANGED <<halfedge, vertex, face, facedata, edgedata, max_vertex, max_face>>

\* from_polygons_with_merge is applied within ModelMesh::from_polygons
NextNormals ==
    \/ FromPolygons
    \/ \E face_key \in {0, 1, 3} : FaceNormal(face_key)
    \/ ModelMeshFromHalfedgeMesh
    \/ ModelMeshFromPolygons

SpecNormals == InitNormals /\ [][NextNormals]_vars

\* ======================================================================
\* Line and LineCloud: the cached pipe meshes
\* ======================================================================
\* Coordinates are counted in units of 5e-7 and the thickness in units of
\* 0.05, as in the pipe calls; the colour of the data is not modelled.  The
\* coordinates of a line are the fractions x0 / over, ..., z1 / over of the
\* unit, in lowest terms: a product, a quotient or a sum is its exact value,
\* of which the f64 of the code is the rounding.
MaxLineOps == 3
\* the default thickness of Data, 1.0
DefaultThickness == 20
\* a Line after Line::new: the coordinates, data.thickness and the mesh field
LineObject(x0, y0, z0, x1, y1, z1) ==
    [x0 |-> x0, y0 |-> y0, z0 |-> z0, x1 |-> x1, y1 |-> y1, z1 |-> z1, over |-> 1,
     thickness |-> DefaultThickness, mesh |-> None]
\* the greatest common divisor of two naturals
RECURSIVE Gcd(_, _)
Gcd(a, b) == IF b = 0 THEN a ELSE Gcd(b, a % b)
\* the coordinates of a line, in lowest terms
Reduced(line) ==
    LET g == Gcd(Gcd(Gcd(Abs(line.x0), Abs(line.y0)), Gcd(Abs(line.z0), Abs(line.x1))),
                 Gcd(Gcd(Abs(line.y1), Abs(line.z1)), line.over))
    IN  [line EXCEPT !.x0 = @ \div g, !.y0 = @ \div g, !.z0 = @ \div g,
                     !.x1 = @ \div g, !.y1 = @ \div g, !.z1 = @ \div g,
                     !.over = @ \div g]
\* Mesh::create_pipe(start, end, thickness) of the endpoints of a line: the
\* meshes it can return
PipeOfLine(line, thickness) ==
    create_pipe(PointNew(line.x0, line.y0, line.z0), PointNew(line.x1, line.y1, line.z1),
                line.over, thickness)
\* Line::update_mesh: the lines it can leave
update_mesh(line) ==
    {[line EXCEPT !.mesh = Some(mesh)] : mesh \in PipeOfLine(line, line.thickness)}
\* Line::get_mesh: the line afterwards and the returned Option<&Mesh>
get_mesh(line) ==
    {[self |-> self, ret |-> self.mesh] :
        self \in IF line.mesh = None THEN update_mesh(line) ELSE {line}}
\* impl AddAssign<&Vector> for Line, the vector in whole units
line_add_assign(line, vector) ==
    [line EXCEPT !.x0 = @ + vector.x * line.over, !.y0 = @ + vector.y * line.over,
                 !.z0 = @ + vector.z * line.over, !.x1 = @ + vector.x * line.over,
                 !.y1 = @ + vector.y * line.over, !.z1 = @ + vector.z * line.over]
\* impl SubAssign<&Vector> for Line, the vector in whole units
line_sub_assign(line, vector) ==
    [line EXCEPT !.x0 = @ - vector.x * line.over, !.y0 = @ - vector.y * line.over,
                 !.z0 = @ - vector.z * line.over, !.x1 = @ - vector.x * line.over,
                 !.y1 = @ - vector.y * line.over, !.z1 = @ - vector.z * line.over]
\* impl MulAssign<f64> for Line, for a whole factor
line_mul_assign(line, factor) ==
    Reduced([line EXCEPT !.x0 = @ * factor, !.y0 = @ * factor, !.z0 = @ * factor,
                         !.x1 = @ * factor, !.y1 = @ * factor, !.z1 = @ * factor])
\* impl DivAssign<f64> for Line, for a whole factor other than zero
line_div_assign(line, factor) ==
    LET flip == IF factor < 0 THEN -1 ELSE 1
    IN  Reduced([line EXCEPT !.x0 = @ * flip, !.y0 = @ * flip, !.z0 = @ * flip,
                             !.x1 = @ * flip, !.y1 = @ * flip, !.z1 = @ * flip,
                             !.over = @ * Abs(factor)])
\* impl IndexMut<usize> for Line: line[index] = value, index in 0..5 and the
\* value in whole units
line_index_mut(line, index, value) ==
    Reduced(CASE index = 0 -> [line EXCEPT !.x0 = value * line.over]
              [] index = 1 -> [line EXCEPT !.y0 = value * line.over]
              [] index = 2 -> [line EXCEPT !.z0 = value * line.over]
              [] index = 3 -> [line EXCEPT !.x1 = value * line.over]
              [] index = 4 -> [line EXCEPT !.y1 = value * line.over]
              [] index = 5 -> [line EXCEPT !.z1 = value * line.over])
\* impl Add<&Vector> for Line and impl Sub<&Vector> for Line build a Line
\* with the given coordinates, a new Data and no mesh
LineWithNewData(line) == [line EXCEPT !.thickness = DefaultThickness, !.mesh = None]

\* LineCloud::new(lines, colors), then data.set_thickness(thickness)
LineCloudNew(lines, thickness) ==
    [lines |-> lines, thickness |-> thickness, meshes |-> << >>, dirty |-> TRUE]
\* LineCloud::update_meshes
update_meshes(cloud) ==
    IF ~cloud.dirty
    THEN {cloud}
    ELSE {[cloud EXCEPT !.meshes = meshes, !.dirty = FALSE] :
             meshes \in Choices([i \in 1..Len(cloud.lines) |->
                                    PipeOfLine(cloud.lines[i], cloud.thickness)])}
\* LineCloud::get_meshes: the cloud afterwards and the returned &Vec<Mesh>
get_meshes(cloud) ==
    {[self |-> self, ret |-> self.meshes] :
        self \in IF cloud.meshes = << >> \/ cloud.dirty
                 THEN update_meshes(cloud) ELSE {cloud}}
\* impl AddAssign<&Vector> for LineCloud
cloud_add_assign(cloud, other) ==
    [cloud EXCEPT !.lines = [i \in 1..Len(cloud.lines) |-> line_add_assign(cloud.lines[i], other)],
                  !.dirty = TRUE]
\* impl SubAssign<&Vector> for LineCloud
cloud_sub_assign(cloud, other) ==
    [cloud EXCEPT !.lines = [i \in 1..Len(cloud.lines) |-> line_sub_assign(cloud.lines[i], other)],
                  !.dirty = TRUE]
\* impl Add<&Vector> for LineCloud: the clone keeps meshes and dirty
cloud_add(cloud, other) ==
    [cloud EXCEPT !.lines = [i \in 1..Len(cloud.lines) |-> line_add_assign(cloud.lines[i], other)]]
\* impl Sub<&Vector> for LineCloud: the clone keeps meshes and dirty
cloud_sub(cloud, other) ==
    [cloud EXCEPT !.lines = [i \in 1..Len(cloud.lines) |-> line_sub_assign(cloud.lines[i], other)]]

\* ---- the calls ----
\* the lines of line_visualization_test.rs, two units long, and a line
\* without length
LineInputs == {LineObject(0, 0, 0, 2, 0, 0), LineObject(0, 0, 0, 0, 2, 0),
               LineObject(0, 0, 0, 0, 0, 0)}
CloudInputs ==
    {LineCloudNew(lines, 1) : lines \in UNION {[1..n -> LineInputs] : n \in 0..2}}
Translations == {VectorNew(2, 2, 2), VectorNew(0, 0, 0)}
Factors == {1, 2}
\* 0.1, the thickness line_visualization_test.rs sets
Thicknesses == {2}
Coordinates == {0, 2}

\* `call.self` is the line or the cloud after the call
InitLines ==
    /\ halfedge = EmptyMap
    /\ vertex = EmptyMap
    /\ face = EmptyMap
    /\ facedata = EmptyMap
    /\ edgedata = EmptyMap
    /\ max_vertex = 0
    /\ max_face = 0
    /\ \/ \E line \in LineInputs :
              call = [family |-> "line", name |-> "new", self |-> line, ret |-> None]
       \/ \E cloud \in CloudInputs :
              call = [family |-> "cloud", name |-> "new", self |-> cloud, ret |-> << >>]
    /\ steps = 0

\* a method call on `call.self` that leaves `self` behind and returns `ret`
MethodCall(name, self, ret) ==
    /\ steps < MaxLineOps
    /\ call' = [family |-> call.family, name |-> name, self |-> self, ret |-> ret]
    /\ steps' = steps + 1
    /\ UNCHANGED <<halfedge, vertex, face, facedata, edgedata, max_vertex, max_face>>

\* line.get_mesh()
GetMesh ==
    /\ call.family = "line"
    /\ \E out \in get_mesh(call.self) : MethodCall("get_mesh", out.self, out.ret)
\* line.update_mesh()
UpdateMesh ==
    /\ call.family = "line"
    /\ \E self \in update_mesh(call.self) : MethodCall("update_mesh", self, None)
\* line += &vector
LineAddAssign(vector) ==
    /\ call.family = "line"
    /\ MethodCall("add_assign", line_add_assign(call.self, vector), None)
\* line -= &vector
LineSubAssign(vector) ==
    /\ call.family = "line"
    /\ MethodCall("sub_assign", line_sub_assign(call.self, vector), None)
\* line *= factor
LineMulAssign(factor) ==
    /\ call.family = "line"
    /\ MethodCall("mul_assign", line_mul_assign(call.self, factor), None)
\* line /= factor
LineDivAssign(factor) ==
    /\ call.family = "line"
    /\ MethodCall("div_assign", line_div_assign(call.self, factor), None)
\* line[index] = value
LineIndexMut(index, value) ==
    /\ call.family = "line"
    /\ MethodCall("index_mut", line_index_mut(call.self, index, value), None)
\* line = line + &vector: impl Add<&Vector> for Line builds a Line with the
\* translated coordinates
LineAdd(vector) ==
    /\ call.family = "line"
    /\ MethodCall("add", LineWithNewData(line_add_assign(call.self, vector)), None)
\* line = line - &vector: impl Sub<&Vector> for Line, likewise
LineSub(vector) ==
    /\ call.family = "line"
    /\ MethodCall("sub", LineWithNewData(line_sub_assign(call.self, vector)), None)
\* line.data.set_thickness(thickness) and cloud.data.set_thickness(thickness):
\* Data::set_thickness writes the thickness and nothing else
SetThickness(thickness) ==
    MethodCall("set_thickness", [call.self EXCEPT !.thickness = thickness], None)
\* cloud.get_meshes()
GetMeshes ==
    /\ call.family = "cloud"
    /\ \E out \in get_meshes(call.self) : MethodCall("get_meshes", out.self, out.ret)
\* cloud.update_meshes()
UpdateMeshes ==
    /\ call.family = "cloud"
    /\ \E self \in update_meshes(call.self) : MethodCall("update_meshes", self, << >>)
\* cloud += &vector
CloudAddAssign(other) ==
    /\ call.family = "cloud"
    /\ MethodCall("add_assign", cloud_add_assign(call.self, other), << >>)
\* cloud -= &vector
CloudSubAssign(other) ==
    /\ call.family = "cloud"
    /\ MethodCall("sub_assign", cloud_sub_assign(call.self, other), << >>)
\* cloud = cloud + &vector
CloudAdd(other) ==
    /\ call.family = "cloud"
    /\ MethodCall("add", cloud_add(call.self, other), << >>)
\* cloud = cloud - &vector
CloudSub(other) ==
    /\ call.family = "cloud"
    /\ MethodCall("sub", cloud_sub(call.self, other), << >>)

NextLines ==
    \/ GetMesh
    \/ UpdateMesh
    \/ \E vector \in Translations : LineAddAssign(vector)
    \/ \E vector \in Translations : LineSubAssign(vector)
    \/ \E factor \in Factors : LineMulAssign(factor)
    \/ \E factor \in Factors : LineDivAssign(factor)
    \/ \E index \in 0..5, value \in Coordinates : LineIndexMut(index, value)
    \/ \E vector \in Translations : LineAdd(vector)
    \/ \E vector \in Translations : LineSub(vector)
    \/ \E thickness \in Thicknesses : SetThickness(thickness)
    \/ GetMeshes
    \/ UpdateMeshes
    \/ \E other \in Translations : CloudAddAssign(other)
    \/ \E other \in Translations : CloudSubAssign(other)
    \/ \E other \in Translations : CloudAdd(other)
    \/ \E other \in Translations : CloudSub(other)

SpecLines == InitLines /\ [][NextLines]_vars
(***************************************************************************)
(* Properties of the connectivity store                                    *)
(***************************************************************************)
MeshState == <<halfedge, vertex, face, facedata, edgedata, max_vertex, max_face>>
Range(seq) == {seq[i] : i \in 1..Len(seq)}
\* the cyclically consecutive pairs of a vertex list
CyclicPairs(vs) == {<<vs[i], vs[IF i = Len(vs) THEN 1 ELSE i + 1]>> : i \in 1..Len(vs)}
Opposites(pairs) == {<<e[2], e[1]>> : e \in pairs}
HasEntry(he, u, v) == u \in DOMAIN he /\ v \in DOMAIN he[u]

\* C1: add_face returns None and leaves the vertex, face and halfedge maps,
\* the attribute maps and both key counters unchanged whenever the vertex list
\* has fewer than 3 entries, names a key absent from the mesh or repeats a key,
\* with an explicit and with an auto-generated face key.
C1_RejectedAddFaceLeavesMeshUnchanged ==
    /\ [](\* after a rejected call: whichever list of the three kinds was passed
          \* with the key of the call, add_face returns None and writes nothing
          (call.name = "add_face" /\ call.ret = None) =>
              \A vertices \in VertexLists :
                  (\/ Len(vertices) < 3
                   \/ \E v \in Range(vertices) : v \notin DOMAIN vertex
                   \/ Cardinality(Range(vertices)) < Len(vertices))
                  => \E out \in {add_face(halfedge, vertex, face, max_face, vertices, call.key)} :
                         /\ out.ret = None
                         /\ out.halfedge = halfedge /\ out.face = face
                         /\ out.max_face = max_face)
    /\ [][(call'.name = "add_face" /\ call'.ret = None) => MeshState' = MeshState]_vars
\* a call with an auto-generated key was rejected on a mesh that has a face,
\* so that a list of three existing keys with a repeated key was among the
\* rejected inputs
C1_Witness ==
    /\ call.name = "add_face" /\ call.ret = None /\ call.key = None
    /\ DOMAIN face # {}
    /\ \E vertices \in VertexLists :
           /\ Len(vertices) = 3 /\ Range(vertices) \subseteq DOMAIN vertex
           /\ add_face(halfedge, vertex, face, max_face, vertices, None).ret = None

\* C2: every entry halfedge[u][v] = Some(f) refers to a face f that exists
\* and whose vertex list contains u immediately followed, cyclically, by v.
C2_OwnedHalfedgeLiesOnItsFace ==
    \A e \in HalfedgeEntries(halfedge) :
        IsSome(halfedge[e[1]][e[2]]) =>
            /\ Unwrap(halfedge[e[1]][e[2]]) \in DOMAIN face
            /\ e \in CyclicPairs(face[Unwrap(halfedge[e[1]][e[2]])])

\* C3: a successful add_face stores the list under the face key, makes the
\* face the owner of each of its cyclic pairs, creates an absent opposite
\* entry as None, keeps an existing opposite entry, and changes no other entry.
C3_AddFaceEffect ==
    [][(call'.name = "add_face" /\ IsSome(call'.ret)) =>
        LET vs == call'.vertices
            f == Unwrap(call'.ret)
            pairs == CyclicPairs(vs)
        IN  /\ IsSome(call'.key) => f = Unwrap(call'.key)
            /\ f \in DOMAIN face' /\ face'[f] = vs
            /\ \A g \in DOMAIN face \ {f} : g \in DOMAIN face' /\ face'[g] = face[g]
            /\ \A e \in pairs :
                   HasEntry(halfedge', e[1], e[2]) /\ halfedge'[e[1]][e[2]] = Some(f)
            /\ \A e \in Opposites(pairs) \ pairs :
                   /\ HasEntry(halfedge', e[1], e[2])
                   /\ halfedge'[e[1]][e[2]] =
                          IF HasEntry(halfedge, e[1], e[2]) THEN halfedge[e[1]][e[2]] ELSE None
            /\ \A e \in (VertexKeys \X VertexKeys) \ (pairs \cup Opposites(pairs)) :
                   /\ HasEntry(halfedge', e[1], e[2]) <=> HasEntry(halfedge, e[1], e[2])
                   /\ HasEntry(halfedge, e[1], e[2]) => halfedge'[e[1]][e[2]] = halfedge[e[1]][e[2]]
       ]_vars
\* a face was added whose opposite halfedges are all owned by another face
C3_Witness ==
    /\ call.name = "add_face" /\ IsSome(call.ret)
    /\ \A e \in Opposites(CyclicPairs(call.vertices)) :
           /\ HasEntry(halfedge, e[1], e[2])
           /\ IsSome(halfedge[e[1]][e[2]])
           /\ halfedge[e[1]][e[2]] # call.ret

\* C4: an auto-generated vertex (face) key is strictly greater than every
\* vertex (face) key used earlier, explicit or generated.  Keys are never
\* removed by add_vertex or add_face, so the keys used earlier are the keys
\* of the map before the call.
C4_AutoKeyAboveEarlierKeys ==
    [][/\ (call'.name = "add_vertex" /\ call'.key = None) =>
              \A k \in DOMAIN vertex : call'.ret > k
       /\ (call'.name = "add_face" /\ call'.key = None /\ IsSome(call'.ret)) =>
              \A k \in DOMAIN face : Unwrap(call'.ret) > k
      ]_vars
\* an auto-generated face key was handed out after the explicit face key 0
\* (the counter stood at 1, so the generated key is 2)
C4_Witness ==
    /\ call.name = "add_face" /\ call.key = None /\ call.ret = Some(2)
    /\ 0 \in DOMAIN face

\* C5: every vertex key that appears in a face or in the halfedge map, as
\* source or target, is a key of the vertex map.
C5_ReferencedVerticesExist ==
    /\ \A f \in DOMAIN face : Range(face[f]) \subseteq DOMAIN vertex
    /\ \A u \in DOMAIN halfedge : u \in DOMAIN vertex /\ DOMAIN halfedge[u] \subseteq DOMAIN vertex
\* a vertex was added again after a face and its halfedges were stored
C5_Witness ==
    /\ DOMAIN face # {}
    /\ \E e \in HalfedgeEntries(halfedge) : IsSome(halfedge[e[1]][e[2]])
    /\ \E e \in HalfedgeEntries(halfedge) : halfedge[e[1]][e[2]] = None
    /\ call.name = "add_vertex"

\* C6: every stored face has at least 3 vertices and no repeated vertex key.
C6_FacesAreSimple ==
    \A f \in DOMAIN face :
        Len(face[f]) >= 3 /\ Cardinality(Range(face[f])) = Len(face[f])
\* two faces are stored
C6_Witness == Cardinality(DOMAIN face) >= 2

\* C7: number_of_edges is the number of unordered pairs {u, v} that have a
\* halfedge entry; a mesh of 3 vertices and one triangular face has 3 edges
\* and Euler characteristic 1.
C7_EdgeCount ==
    /\ number_of_edges(halfedge) =
           Cardinality({{e[1], e[2]} : e \in HalfedgeEntries(halfedge)})
    /\ (/\ number_of_vertices(vertex) = 3
        /\ number_of_faces(face) = 1
        /\ \A f \in DOMAIN face : Len(face[f]) = 3)
       => (number_of_edges(halfedge) = 3 /\ euler(vertex, halfedge, face) = 1)
\* one triangle on three vertices whose keys are not the auto-generated ones
C7_Witness ==
    /\ number_of_vertices(vertex) = 3
    /\ number_of_faces(face) = 1
    /\ 0 \in DOMAIN vertex
    /\ Cardinality(HalfedgeEntries(halfedge)) = 6

\* C8: after clear() the vertex, face, halfedge, facedata and edgedata maps
\* are empty and both counters are zero: the mesh state is the one of
\* Mesh::new(), so later operations behave as on a new mesh.
C8_ClearGivesNewMesh ==
    call.name = "clear" =>
        MeshState = <<EmptyMap, EmptyMap, EmptyMap, EmptyMap, EmptyMap, 0, 0>>
\* clear() ran as the last of MaxOps operations
C8_Witness == call.name = "clear" /\ steps = MaxOps

\* C9: add_vertex(p, Some(k)) with k present returns k, stores position p
\* under k and changes nothing else: the key set, the other vertices, the
\* faces, the halfedges, the attribute maps and the counters stay as they are.
C9_OverwriteVertexFrame ==
    [][(/\ call'.name = "add_vertex"
        /\ IsSome(call'.key)
        /\ Unwrap(call'.key) \in DOMAIN vertex) =>
        LET k == Unwrap(call'.key)
            p == call'.position
        IN  /\ call'.ret = k
            /\ DOMAIN vertex' = DOMAIN vertex
            /\ number_of_vertices(vertex') = number_of_vertices(vertex)
            /\ vertex'[k].x = p.x /\ vertex'[k].y = p.y /\ vertex'[k].z = p.z
            /\ \A j \in DOMAIN vertex \ {k} : vertex'[j] = vertex[j]
            /\ face' = face
            /\ halfedge' = halfedge
            /\ <<facedata, edgedata, max_vertex, max_face>>' =
                   <<facedata, edgedata, max_vertex, max_face>>
       ]_vars
\* a vertex used by a face was overwritten with a different position
C9_Witness ==
    /\ call.name = "add_vertex" /\ IsSome(call.key)
    /\ \E f \in DOMAIN face : Unwrap(call.key) \in Range(face[f])
    /\ \E j \in DOMAIN vertex : vertex[j].x # call.position.x

\* C10: add_vertex and add_face only grow the mesh: vertex keys, face keys
\* and halfedge entries stay present, an entry never goes from Some(face)
\* back to None, and the three counts never decrease.
C10_MonotoneGrowth ==
    [][(call'.name \in {"add_vertex", "add_face"}) =>
        /\ DOMAIN vertex \subseteq DOMAIN vertex'
        /\ DOMAIN face \subseteq DOMAIN face'
        /\ \A e \in HalfedgeEntries(halfedge) :
               /\ HasEntry(halfedge', e[1], e[2])
               /\ IsSome(halfedge[e[1]][e[2]]) => IsSome(halfedge'[e[1]][e[2]])
        /\ number_of_vertices(vertex') >= number_of_vertices(vertex)
        /\ number_of_faces(face') >= number_of_faces(face)
        /\ number_of_edges(halfedge') >= number_of_edges(halfedge)
       ]_vars
\* a second face was added on halfedges that already had owners
C10_Witness ==
    /\ call.name = "add_face" /\ IsSome(call.ret)
    /\ Cardinality(DOMAIN face) = 2
    /\ \A e \in HalfedgeEntries(halfedge) : IsSome(halfedge[e[1]][e[2]])

(***************************************************************************)
(* Properties of the mesh builders                                         *)
(***************************************************************************)
\* C11: from_polygons on the six quad faces of a cube, each corner given
\* three times, gives 8 vertices, 6 faces of 4 vertices each, 12 edges and
\* euler() = 2, whatever the order of the faces and the starting corner and
\* winding of each quad.
C11_CubeFromPolygons ==
    (call.name = "from_polygons" /\ call.family = "cube") =>
        /\ number_of_vertices(vertex) = 8
        /\ number_of_faces(face) = 6
        /\ \A f \in DOMAIN face : Len(face[f]) = 4
        /\ number_of_edges(halfedge) = 12
        /\ euler(vertex, halfedge, face) = 2
\* the cube was built from quads of which the first is wound the other way
\* round and the last starts at another corner than in the test
C11_Witness ==
    /\ call.name = "from_polygons" /\ call.family = "cube"
    /\ call.polygons[1] = Reverse(CubeFaces[1])
    /\ call.polygons[6] # CubeFaces[6]
    /\ number_of_vertices(vertex) = 8

\* ---- polygons in the plane ----
\* twice the signed area of the triangle a, b, c (positive: counter-clockwise)
Cross(a, b, c) == (b[1] - a[1]) * (c[2] - a[2]) - (b[2] - a[2]) * (c[1] - a[1])
\* p lies on the closed segment from a to b
OnSegment(p, a, b) ==
    /\ Cross(a, b, p) = 0
    /\ (a[1] <= p[1] /\ p[1] <= b[1]) \/ (b[1] <= p[1] /\ p[1] <= a[1])
    /\ (a[2] <= p[2] /\ p[2] <= b[2]) \/ (b[2] <= p[2] /\ p[2] <= a[2])
\* c and d lie strictly on opposite sides of the line through a and b
Separates(a, b, c, d) ==
    \/ Cross(a, b, c) > 0 /\ Cross(a, b, d) < 0
    \/ Cross(a, b, c) < 0 /\ Cross(a, b, d) > 0
\* the closed segments ab and cd have a point in common
SegmentsMeet(a, b, c, d) ==
    \/ Separates(a, b, c, d) /\ Separates(c, d, a, b)
    \/ OnSegment(c, a, b) \/ OnSegment(d, a, b)
    \/ OnSegment(a, c, d) \/ OnSegment(b, c, d)
\* the point after position i, cyclically (1-based positions)
After(pts, i) == pts[(i % Len(pts)) + 1]
\* the edges leaving positions i and j are neighbours on the boundary
AdjacentEdges(pts, i, j) == (i % Len(pts)) + 1 = j \/ (j % Len(pts)) + 1 = i
\* the edges u-v and v-w fold back onto each other at v
FoldsBack(u, v, w) ==
    /\ Cross(u, v, w) = 0
    /\ (u[1] - v[1]) * (w[1] - v[1]) + (u[2] - v[2]) * (w[2] - v[2]) > 0
\* a simple polygon: at least 3 distinct points, neighbouring edges meeting in
\* their common end only, other edges not meeting at all
IsSimplePolygon(pts) ==
    /\ Len(pts) >= 3
    /\ \A i, j \in 1..Len(pts) : i < j => pts[i] # pts[j]
    /\ \A i \in 1..Len(pts) : ~FoldsBack(pts[i], After(pts, i), After(pts, (i % Len(pts)) + 1))
    /\ \A i, j \in 1..Len(pts) :
           (i < j /\ ~AdjacentEdges(pts, i, j))
               => ~SegmentsMeet(pts[i], After(pts, i), pts[j], After(pts, j))
\* the turn at the point after position i
TurnAt(pts, i) == Cross(pts[i], After(pts, i), After(pts, (i % Len(pts)) + 1))
\* a convex polygon: simple, and turning one way only (straight corners allowed)
IsConvexPolygon(pts) ==
    /\ IsSimplePolygon(pts)
    /\ \/ \A i \in 1..Len(pts) : TurnAt(pts, i) >= 0
       \/ \A i \in 1..Len(pts) : TurnAt(pts, i) <= 0
\* a triple of three different indices of a list of n points
IsIndexTriple(t, n) ==
    /\ Len(t) = 3
    /\ \A k \in 1..3 : t[k] \in 0..(n - 1)
    /\ t[1] # t[2] /\ t[2] # t[3] /\ t[1] # t[3]

\* C12: for every convex polygon with n >= 3 vertices, in either winding,
\* earclip_triangulate succeeds and returns exactly n - 2 triangles, each of
\* three distinct indices in 0..n-1 of the original order.
C12_ConvexGivesTriangles ==
    (/\ call.name = "earclip_triangulate" /\ call.pc = "done"
     /\ IsConvexPolygon(Points2D(call.points)))
    => /\ call.ret.ok
       /\ Len(call.ret.value) = Len(call.points) - 2
       /\ \A t \in 1..Len(call.ret.value) : IsIndexTriple(call.ret.value[t], Len(call.points))
\* a clockwise convex quad was triangulated
C12_Witness ==
    /\ call.name = "earclip_triangulate" /\ call.pc = "done"
    /\ Len(call.points) = 4
    /\ IsConvexPolygon(Points2D(call.points))
    /\ call.was_reversed
    /\ call.ret.ok

\* C13: earclip_triangulate terminates on every input of n >= 3 points: each
\* pass removes exactly one active vertex or returns the error after a scan
\* that found no ear, there are at most n - 3 passes, and the result is
\* exactly n - 2 triangles or an error, never a partial list.
C13_EarclipTerminates ==
    /\ []((call.name = "earclip_triangulate" /\ Len(call.points) >= 3) =>
            /\ call.passes <= Len(call.points) - 3
            /\ call.pc = "done" =>
                   \/ call.ret.ok /\ Len(call.ret.value) = Len(call.points) - 2
                   \/ ~call.ret.ok /\ call.ret.value = << >>)
    /\ [][(call.name = "earclip_triangulate" /\ call.pc = "loop") =>
            \/ /\ call'.pc = "loop"
               /\ call'.passes = call.passes + 1
               /\ Len(call'.indices) = Len(call.indices) - 1
               /\ \E i \in 1..Len(call.indices) :
                      call'.indices = [k \in 1..(Len(call.indices) - 1) |->
                                          call.indices[IF k < i THEN k ELSE k + 1]]
               /\ Len(call'.triangles) = Len(call.triangles) + 1
            \/ /\ call'.pc = "done" /\ ~call'.ret.ok
               /\ call'.passes = call.passes + 1
               /\ \A i \in 0..(Len(call.indices) - 1) :
                      ~EarAt(call.polygon_points, call.indices, i)
            \/ /\ call'.pc = "done" /\ call'.ret.ok
               /\ call'.passes = call.passes
               /\ Len(call.indices) = 3]_vars
    /\ (call.name = "earclip_triangulate") ~> (call.pc = "done")
\* the error was returned for a list of 5 points in the second pass, whose
\* scan found no ear after the first pass had clipped one
C13_Witness ==
    /\ call.name = "earclip_triangulate" /\ call.pc = "done"
    /\ Len(call.points) = 5
    /\ ~call.ret.ok
    /\ call.ret.value = << >>
    /\ call.passes = 2
    /\ Len(call.indices) = 4
    /\ Len(call.triangles) = 1

\* the set of triangles of a triangulation of n points, each triangle as the
\* set of its positions in the order `original`; the triples of a result for
\* the reversed order name position n - 1 - idx of the original order
TrianglesOf(result, n, reversed_order) ==
    {{IF reversed_order THEN n - 1 - result.value[t][k] ELSE result.value[t][k] : k \in 1..3} :
        t \in 1..Len(result.value)}
\* from_polygon_earclip on the points of the call in reversed order gives as
\* many vertices and faces as on the order of the call, and the same triangles
SameMeshWhenReversed ==
    LET n == Len(call.points)
        reversed == from_polygon_earclip(Reverse(call.points))
    IN  /\ number_of_vertices(reversed.vertex) = number_of_vertices(vertex)
        /\ number_of_faces(reversed.face) = number_of_faces(face)
        /\ TrianglesOf(earclip_triangulate(Reverse(Points2D(call.points))), n, TRUE)
               = TrianglesOf(earclip_triangulate(Points2D(call.points)), n, FALSE)
ReversedMeshIsNonEmpty ==
    LET reversed == from_polygon_earclip(Reverse(call.points))
    IN  number_of_vertices(reversed.vertex) > 0 /\ number_of_faces(reversed.face) > 0

\* C14 (as stated): for a polygon with more than 3 points and non-zero signed
\* area, from_polygon_earclip on the reversed order gives a non-empty mesh with
\* as many vertices and faces as on the original order, and the same triangles.
C14_ReversedGivesSameNonEmptyMesh ==
    (/\ call.name = "from_polygon_earclip"
     /\ Len(call.points) > 3
     /\ compute_signed_area(Points2D(call.points)) # 0)
    => SameMeshWhenReversed /\ ReversedMeshIsNonEmpty
\* C14 (amended): for a point list with more than 3 points and non-zero signed
\* area, from_polygon_earclip on the reversed order gives as many vertices and
\* faces as on the original order, and the same triangles; the two meshes are
\* non-empty exactly when earclip_triangulate succeeds on the list, which it
\* does for every simple polygon, and empty otherwise.
C14_ReversedGivesSameMesh ==
    (/\ call.name = "from_polygon_earclip"
     /\ Len(call.points) > 3
     /\ compute_signed_area(Points2D(call.points)) # 0)
    => /\ SameMeshWhenReversed
       /\ ReversedMeshIsNonEmpty <=> earclip_triangulate(Points2D(call.points)).ok
       /\ IsSimplePolygon(Points2D(call.points)) => ReversedMeshIsNonEmpty
\* a simple quad that is not convex was passed, and its mesh has 2 faces
C14_Witness ==
    /\ call.name = "from_polygon_earclip"
    /\ Len(call.points) = 4
    /\ IsSimplePolygon(Points2D(call.points))
    /\ ~IsConvexPolygon(Points2D(call.points))
    /\ number_of_faces(face) = 2
    /\ ReversedMeshIsNonEmpty

\* C15: the mesh built by from_polygon_earclip from a simple polygon with n
\* vertices has n vertices, n - 2 triangular faces, 2n - 3 edges, euler() = 1,
\* and is_vertex_on_boundary is true for every vertex.
C15_SimplePolygonMesh ==
    (call.name = "from_polygon_earclip" /\ IsSimplePolygon(Points2D(call.points)))
    => /\ number_of_vertices(vertex) = Len(call.points)
       /\ number_of_faces(face) = Len(call.points) - 2
       /\ \A f \in DOMAIN face : Len(face[f]) = 3
       /\ number_of_edges(halfedge) = 2 * Len(call.points) - 3
       /\ euler(vertex, halfedge, face) = 1
       /\ \A v \in DOMAIN vertex : is_vertex_on_boundary(halfedge, v)
\* a clockwise simple quad with a reflex corner was built into a mesh
C15_Witness ==
    /\ call.name = "from_polygon_earclip"
    /\ Len(call.points) = 4
    /\ IsSimplePolygon(Points2D(call.points))
    /\ \E i \in 1..4 : TurnAt(Points2D(call.points), i) > 0
    /\ \E i \in 1..4 : TurnAt(Points2D(call.points), i) < 0
    /\ compute_signed_area(Points2D(call.points)) > 0
    /\ number_of_vertices(vertex) = 4
(***************************************************************************)
(* Properties of the polygon-soup builders                                 *)
(***************************************************************************)
\* the index triples from_polygons_with_merge is to use for a polygon: the
\* polygon itself for a triangle, else the ear clipping of its projection, or
\* the fan around its first point when the ear clipping fails
ExpectedTriangles(polygon, unit) ==
    LET clipped == earclip_triangulate(project_polygon_to_2d(polygon, unit))
    IN  IF Len(polygon) = 3 THEN << <<0, 1, 2>> >>
        ELSE IF clipped.ok THEN clipped.value
        ELSE [i \in 1..(Len(polygon) - 2) |-> <<0, i, i + 1>>]
\* polygon k of the call has at least 3 points, all given different vertices
MergesToDistinct(k) ==
    /\ Len(call.polygons[k]) >= 3
    /\ Cardinality(Range(call.assigned[k])) = Len(call.polygons[k])
\* C16: from_polygons_with_merge adds exactly n - 2 triangular faces for
\* every polygon with n >= 3 points that merge to n distinct vertices: the
\* triangles of the ear clipping when it succeeds and the fan (0, i, i + 1)
\* when it fails; no such polygon is dropped and every face of the result has
\* 3 vertices.
C16_MergeAddsTriangles ==
    call.name = "from_polygons_with_merge" =>
        /\ \A f \in DOMAIN face : Len(face[f]) = 3
        /\ \A k \in 1..Len(call.polygons) :
               MergesToDistinct(k) =>
                   LET expected == ExpectedTriangles(call.polygons[k], call.unit)
                   IN  /\ Len(call.added[k]) = Len(call.polygons[k]) - 2
                       /\ Len(expected) = Len(call.polygons[k]) - 2
                       /\ \A t \in 1..Len(call.added[k]) :
                              /\ IsSome(call.added[k][t])
                              /\ ContainsKey(face, Unwrap(call.added[k][t]))
                              /\ face[Unwrap(call.added[k][t])]
                                     = [c \in 1..3 |-> call.assigned[k][expected[t][c] + 1]]
                       /\ \A s, t \in 1..Len(call.added[k]) :
                              s # t => call.added[k][s] # call.added[k][t]
\* a polygon of 5 distinct points on which the ear clipping fails was given
\* the three triangles of the fan
C16_Witness ==
    /\ call.name = "from_polygons_with_merge"
    /\ call.family = "star"
    /\ Len(call.polygons[1]) = 5
    /\ MergesToDistinct(1)
    /\ ~earclip_triangulate(project_polygon_to_2d(call.polygons[1], call.unit)).ok
    /\ number_of_faces(face) = 3
    /\ face[Unwrap(call.added[1][3])]
           = <<call.assigned[1][1], call.assigned[1][4], call.assigned[1][5]>>

\* the multiple of the precision nearest to coordinate c, as a number of steps
MultipleOf(c, unit, precision) ==
    IF unit = Whole THEN c ELSE RoundHalfAway(c, UnwrapOr(precision, DefaultPrecision))
SameMultiples(p, q, unit, precision) ==
    /\ MultipleOf(p.x, unit, precision) = MultipleOf(q.x, unit, precision)
    /\ MultipleOf(p.y, unit, precision) = MultipleOf(q.y, unit, precision)
    /\ MultipleOf(p.z, unit, precision) = MultipleOf(q.z, unit, precision)
\* the call was given two triangles of separate points that share an edge
TwoTrianglesSharingAnEdge ==
    /\ Len(call.polygons) = 2
    /\ Len(call.polygons[1]) = 3 /\ Len(call.polygons[2]) = 3
    /\ \A k \in 1..2 : \A i, j \in 1..3 :
           i # j => ~SameMultiples(call.polygons[k][i], call.polygons[k][j],
                                   call.unit, call.precision)
    /\ Cardinality({j \in 1..3 : \E i \in 1..3 :
                       SameMultiples(call.polygons[1][i], call.polygons[2][j],
                                     call.unit, call.precision)}) = 2
\* C17: in from_polygons and in from_polygons_with_merge, for every
\* precision, two input points get the same mesh vertex if and only if their
\* coordinates round to the same multiple of the precision on all three axes;
\* two triangles sharing an edge, given as 6 points, give 4 vertices and 2
\* faces.
C17_MergeIffSameMultiple ==
    call.name \in {"from_polygons", "from_polygons_with_merge"} =>
        /\ \A a, b \in 1..Len(call.polygons) :
               \A i \in 1..Len(call.assigned[a]), j \in 1..Len(call.assigned[b]) :
                   (call.assigned[a][i] = call.assigned[b][j])
                       <=> SameMultiples(call.polygons[a][i], call.polygons[b][j],
                                         call.unit, call.precision)
        /\ TwoTrianglesSharingAnEdge =>
               number_of_vertices(vertex) = 4 /\ number_of_faces(face) = 2

\* the polygons with at least 3 points, in order
HasThreePoints(polygon) == Len(polygon) >= 3
RemainingPolygons == SelectSeq(call.polygons, HasThreePoints)
\* C18: polygons with fewer than 3 points are ignored by from_polygons and by
\* from_polygons_with_merge: they add no vertex and no face, so the result has
\* only the vertices and faces of the remaining polygons.
C18_ShortPolygonsIgnored ==
    /\ call.name = "from_polygons" =>
           MeshOfState = from_polygons(RemainingPolygons, call.precision, call.unit).mesh
    /\ call.name = "from_polygons_with_merge" =>
           MeshOfState
               = from_polygons_with_merge(RemainingPolygons, call.precision, call.unit).mesh

\* a pipe mesh as create_pipe is to return it for the segment: empty or the
\* 26 vertices and 48 faces
IsEmptyMesh(m) == number_of_vertices(m.vertex) = 0 /\ number_of_faces(m.face) = 0
IsFullPipe(m) == number_of_vertices(m.vertex) = 26 /\ number_of_faces(m.face) = 48
\* the results of to_pipe_meshes and extract_edges_as_pipes do not depend on
\* the sides argument: they are pipes of the segments, in order
SidesAreIgnored ==
    /\ call.name = "to_pipe_meshes" =>
           /\ Len(call.ret) = (IF Len(call.points) < 2 THEN 0 ELSE Len(call.points) - 1)
           /\ \A i \in 1..Len(call.ret) :
                  call.ret[i] \in create_pipe(InMicro(call.points[i], call.unit),
                                              InMicro(call.points[i + 1], call.unit), 1,
                                              PipeRadius(call.radius, call.thickness))
    /\ call.name = "extract_edges_as_pipes" =>
           \E order \in FaceOrdersOf(face) :
               call.ret \in extract_edges_as_pipes(MeshOfState, call.radius, None, order)
\* the distance of the two points of a create_pipe call, compared with 1e-6:
\* the counts of units tell it, but for points whose counts are exactly 1e-6
\* apart, where it is the computed length the call has kept
DistanceToEpsilon ==
    IF LengthSquared(call.start, call.end) > PipeEpsilon * PipeEpsilon THEN "above"
    ELSE IF LengthSquared(call.start, call.end) < PipeEpsilon * PipeEpsilon THEN "below"
    ELSE call.length
\* C19 (as stated): create_pipe between two points at distance > 1e-6 returns
\* a mesh with exactly 26 vertices and 48 faces, and at distance <= 1e-6 an
\* empty mesh; the result is the same for every sides argument passed to
\* extract_edges_as_pipes or Pline::to_pipe_meshes.
C19_PipeEmptyUpToEpsilon ==
    /\ call.name = "create_pipe" =>
           /\ DistanceToEpsilon = "above" => IsFullPipe(call.ret)
           /\ DistanceToEpsilon \in {"below", "equal"} => IsEmptyMesh(call.ret)
    /\ SidesAreIgnored
\* C19 (amended): create_pipe returns the 26-vertex, 48-face mesh at distance
\* >= 1e-6 and the empty mesh at distance < 1e-6; every pipe returned by
\* to_pipe_meshes and extract_edges_as_pipes is a create_pipe mesh of its
\* segment, whatever the sides argument.
C19_PipeEmptyBelowEpsilon ==
    /\ call.name = "create_pipe" =>
           /\ DistanceToEpsilon \in {"equal", "above"} => IsFullPipe(call.ret)
           /\ DistanceToEpsilon = "below" => IsEmptyMesh(call.ret)
    /\ call.name \in {"to_pipe_meshes", "extract_edges_as_pipes"} =>
           \A i \in 1..Len(call.ret) : IsFullPipe(call.ret[i]) \/ IsEmptyMesh(call.ret[i])
    /\ SidesAreIgnored
\* create_pipe was called on the segment from (0, 0, 0) to (1e-6, 0, 0), of
\* length exactly 1e-6, and returned the full pipe
C19_Witness ==
    /\ call.name = "create_pipe"
    /\ call.start = PointNew(0, 0, 0) /\ call.end = PointNew(PipeEpsilon, 0, 0)
    /\ DistanceToEpsilon = "equal"
    /\ IsFullPipe(call.ret)

\* the undirected edges of the faces of the mesh
FaceEdges(fs) ==
    UNION {{{fs[f][i], NextInFace(fs[f], i)} : i \in 1..Len(fs[f])} : f \in DOMAIN fs}
\* C20: for every mesh reachable through add_vertex and add_face,
\* extract_edges_as_lines and extract_edges_as_pipes each return exactly one
\* item per undirected edge of the mesh, the same number as number_of_edges(),
\* an edge shared by several faces appearing once.
C20_OneItemPerEdge ==
    call.name \in {"extract_edges_as_lines", "extract_edges_as_pipes"} =>
        /\ Len(call.ret) = Cardinality(FaceEdges(face))
        /\ Len(call.ret) = number_of_edges(halfedge)


\* ======================================================================
\* Claims C21..C30
\* ======================================================================
\* a vector of length one: (x, y, z) / sqrt(over) with x^2 + y^2 + z^2 = over
IsUnitVector(v) == v.over > 0 /\ VectorLengthSquared(v) = v.over
\* the first three vertices of the face lie on one line (or coincide)
FirstThreeCollinear(face_key) ==
    /\ ContainsKey(face, face_key)
    /\ Len(face[face_key]) >= 3
    /\ \A k \in 1..3 : ContainsKey(vertex, face[face_key][k])
    /\ VectorLengthSquared(VectorCross(
           VectorSub(vertex[face[face_key][2]], vertex[face[face_key][1]]),
           VectorSub(vertex[face[face_key][3]], vertex[face[face_key][1]]))) = 0
\* C21: face_normal returns either None or a unit-length vector; for a face
\* whose first three vertices are coincident or collinear it returns None,
\* never a zero or non-unit vector (it returns a value, so it did not panic).
C21_FaceNormalNoneOrUnit ==
    call.name = "face_normal" =>
        /\ call.ret = None \/ IsUnitVector(Unwrap(call.ret))
        /\ FirstThreeCollinear(call.face_key) => call.ret = None

\* C22: no polygon input makes the mesh builders or the renderable conversion
\* panic: ModelMesh::from_polygons and ModelMesh::from_halfedge_mesh return a
\* (possibly empty) result for every input, also for polygons whose points
\* are collinear (zero-area triangles).
C22_RenderableNeverPanics ==
    call.name \in {"from_halfedge_mesh", "model_mesh_from_polygons"} => ~call.ret.panicked

\* the faces whose vertex list has u immediately followed, cyclically, by v
FacesWithPair(e) == {g \in DOMAIN face : e \in CyclicPairs(face[g])}
\* the largest of a non-empty set of keys
MaxKey(S) == CHOOSE g \in S : \A h \in S : h <= g
\* C23 (as claimed): after any sequence of add_vertex and add_face calls with
\* auto-generated face keys every face still owns all of its halfedges:
\* halfedge[u][v] = Some(f) for each face f and each cyclically consecutive
\* pair (u, v) of its vertex list.
C23_EveryFaceOwnsItsHalfedges ==
    \A f \in DOMAIN face : \A e \in CyclicPairs(face[f]) :
        HasEntry(halfedge, e[1], e[2]) /\ halfedge[e[1]][e[2]] = Some(f)
\* C23 (amended): with auto-generated face keys every cyclically consecutive
\* pair (u, v) of a face is owned by the face added last among the faces that
\* have this pair, which is the one with the largest key; a later add_face
\* with the same directed pair takes the halfedge over.
C23_LatestFaceOwnsHalfedge ==
    \A f \in DOMAIN face : \A e \in CyclicPairs(face[f]) :
        /\ HasEntry(halfedge, e[1], e[2])
        /\ halfedge[e[1]][e[2]] = Some(MaxKey(FacesWithPair(e)))
C23_Witness ==
    /\ call.name = "add_face" /\ IsSome(call.ret)
    /\ \E f \in DOMAIN face : \E e \in CyclicPairs(face[f]) :
           /\ f < Unwrap(call.ret)
           /\ e \in CyclicPairs(call.vertices)
           /\ halfedge[e[1]][e[2]] = call.ret

\* C24: add_vertex(p, None) always creates a new vertex and a successful
\* add_face(vs, None) always creates a new face: the returned key was not in
\* the map, the count grows by exactly one and every entry the map had keeps
\* its value, after any sequence of explicit-key insertions, auto-key
\* insertions and clear() calls.
C24_AutoKeyCreatesNewEntry ==
    [][/\ (call'.name = "add_vertex" /\ call'.key = None) =>
              /\ call'.ret \notin DOMAIN vertex
              /\ number_of_vertices(vertex') = number_of_vertices(vertex) + 1
              /\ \A k \in DOMAIN vertex : k \in DOMAIN vertex' /\ vertex'[k] = vertex[k]
       /\ (call'.name = "add_face" /\ call'.key = None /\ IsSome(call'.ret)) =>
              /\ Unwrap(call'.ret) \notin DOMAIN face
              /\ number_of_faces(face') = number_of_faces(face) + 1
              /\ \A k \in DOMAIN face : k \in DOMAIN face' /\ face'[k] = face[k]
      ]_vars
\* a generated vertex key was handed out to a mesh that held the explicit
\* vertex key 0 (the counter stood at 1, so the generated key is 2)
C24_Witness ==
    /\ call.name = "add_vertex" /\ call.key = None /\ call.ret = 2
    /\ 0 \in DOMAIN vertex

\* the triple t visits three positions of the list vs in increasing order,
\* starting from one of its three entries: it runs in the direction of vs
RunsAlong(t, vs) ==
    \E i, j, k \in 1..Len(vs) :
        /\ i < j /\ j < k
        /\ \/ t = <<vs[i], vs[j], vs[k]>>
           \/ t = <<vs[j], vs[k], vs[i]>>
           \/ t = <<vs[k], vs[i], vs[j]>>
\* a closed, consistently oriented soup: every directed pair of a polygon is
\* a pair of no other polygon, and its opposite is a pair of some polygon
ClosedAndConsistent(lists) ==
    \A p \in 1..Len(lists) : \A e \in CyclicPairs(lists[p]) :
        /\ \A q \in 1..Len(lists) : q # p => e \notin CyclicPairs(lists[q])
        /\ \E q \in 1..Len(lists) : <<e[2], e[1]>> \in CyclicPairs(lists[q])
\* C25: from_polygons_with_merge keeps the orientation of its input: every
\* triangle it emits for a polygon lists its three vertices in the cyclic
\* direction of the polygon, so for a closed, consistently oriented soup (the
\* six quads of a cube) no halfedge of the mesh is None and no vertex is on
\* the boundary.
C25_MergeKeepsOrientation ==
    call.name = "from_polygons_with_merge" =>
        /\ \A p \in 1..Len(call.added) : \A n \in 1..Len(call.added[p]) :
               IsSome(call.added[p][n]) =>
                   RunsAlong(face[Unwrap(call.added[p][n])], call.assigned[p])
        /\ (call.family = "cube" /\ ClosedAndConsistent(call.assigned)) =>
               /\ \A e \in HalfedgeEntries(halfedge) : halfedge[e[1]][e[2]] # None
               /\ \A v \in DOMAIN vertex : ~is_vertex_on_boundary(halfedge, v)

\* the thicknesses a line or a cloud has at some time: the claims on the cached
\* meshes are about the endpoints, whatever the radius of the pipe
ThicknessesInUse == {DefaultThickness} \cup {c.thickness : c \in CloudInputs} \cup Thicknesses
\* C26: after any sequence of get_mesh, update_mesh and in-place changes of a
\* Line (+=, -=, *=, /=, index assignment), get_mesh returns the pipe mesh
\* built from the line's current endpoints, never one built from earlier
\* endpoints.
C26_GetMeshIsCurrent ==
    (call.family = "line" /\ call.name = "get_mesh") =>
        \E thickness \in ThicknessesInUse :
            \E mesh \in PipeOfLine(call.self, thickness) : call.ret = Some(mesh)

\* C27: after any sequence of get_meshes, update_meshes and translations of a
\* LineCloud (in place with += and -=, or producing a new cloud with + and -),
\* get_meshes on the resulting cloud returns exactly one pipe mesh per line,
\* each built from that line's current endpoints.
C27_GetMeshesAreCurrent ==
    (call.family = "cloud" /\ call.name = "get_meshes") =>
        /\ Len(call.ret) = Len(call.self.lines)
        /\ \A i \in 1..Len(call.ret) : \E thickness \in ThicknessesInUse :
               call.ret[i] \in PipeOfLine(call.self.lines[i], thickness)

\* every pair of every face is owned by that face (so no two faces have a
\* pair in common), and its opposite is owned by another face
IsClosedOriented(m) ==
    /\ \A f \in DOMAIN m.face : \A e \in CyclicPairs(m.face[f]) :
           /\ HasEntry(m.halfedge, e[1], e[2]) /\ m.halfedge[e[1]][e[2]] = Some(f)
           /\ HasEntry(m.halfedge, e[2], e[1])
           /\ LET owner == m.halfedge[e[2]][e[1]]
              IN  /\ IsSome(owner) /\ Unwrap(owner) # f
                  /\ ContainsKey(m.face, Unwrap(owner))
                  /\ <<e[2], e[1]>> \in CyclicPairs(m.face[Unwrap(owner)])
    /\ \A e \in HalfedgeEntries(m.halfedge) : m.halfedge[e[1]][e[2]] # None
\* the pipes a call returned
ReturnedPipes ==
    IF call.name = "create_pipe" THEN {call.ret}
    ELSE IF call.name \in {"to_pipe_meshes", "extract_edges_as_pipes"} THEN Range(call.ret)
    ELSE {}
\* C28: every non-empty pipe mesh returned by create_pipe is a closed,
\* consistently oriented surface: all 48 template faces are accepted, each
\* directed halfedge is owned by exactly one face and its opposite by
\* another, number_of_edges() = 72, euler() = 2 and no vertex is on the
\* boundary.
C28_PipeIsClosedSurface ==
    \A m \in ReturnedPipes :
        ~IsEmptyMesh(m) =>
            /\ number_of_faces(m.face) = Len(PipeFaces)
            /\ IsClosedOriented(m)
            /\ number_of_edges(m.halfedge) = 72
            /\ euler(m.vertex, m.halfedge, m.face) = 2
            /\ \A v \in DOMAIN m.vertex : ~is_vertex_on_boundary(m.halfedge, v)
\* a polyline of three points gave two pipes, both non-empty
C28_Witness ==
    /\ call.name = "to_pipe_meshes" /\ Len(call.ret) = 2
    /\ \A i \in 1..2 : ~IsEmptyMesh(call.ret[i])

\* twice the signed area of the triangle t (indices from 0) of the points pts
TwiceArea(pts, t) == Cross(At(pts, t[1]), At(pts, t[2]), At(pts, t[3]))
\* the sum of the absolute values of TwiceArea over the triangles k, k+1, ...
RECURSIVE SumOfAreas(_, _, _)
SumOfAreas(pts, triangles, k) ==
    IF k > Len(triangles) THEN 0
    ELSE Abs(TwiceArea(pts, triangles[k])) + SumOfAreas(pts, triangles, k + 1)
\* C29: whenever earclip_triangulate succeeds on a simple polygon (vertices on
\* an integer grid, either winding), the returned triangles all have non-zero
\* area and the same orientation, and their areas add up to the area of the
\* polygon.
C29_TrianglesTilePolygon ==
    (/\ call.name = "earclip_triangulate" /\ call.pc = "done"
     /\ IsSimplePolygon(Points2D(call.points))
     /\ call.ret.ok)
    => LET pts == Points2D(call.points)
           triangles == call.ret.value
       IN  /\ \A t \in 1..Len(triangles) : TwiceArea(pts, triangles[t]) # 0
           /\ \A s, t \in 1..Len(triangles) :
                  (TwiceArea(pts, triangles[s]) > 0) = (TwiceArea(pts, triangles[t]) > 0)
           /\ SumOfAreas(pts, triangles, 1) = Abs(AreaSum(pts, 0))
\* a clockwise quad with a reflex corner was triangulated
C29_Witness ==
    /\ call.name = "earclip_triangulate" /\ call.pc = "done"
    /\ Len(call.points) = 4
    /\ IsSimplePolygon(Points2D(call.points))
    /\ ~IsConvexPolygon(Points2D(call.points))
    /\ call.was_reversed
    /\ call.ret.ok

\* C30: after any sequence of add_vertex, add_face and clear calls the
\* halfedge map is symmetric and matches the vertex set: halfedge[u][v] is
\* present if and only if halfedge[v][u] is present, there is no entry with
\* u = v, and the outer keys of halfedge are exactly the keys of vertex.
C30_HalfedgeMapSymmetric ==
    /\ \A e \in HalfedgeEntries(halfedge) :
           /\ HasEntry(halfedge, e[2], e[1])
           /\ e[1] # e[2]
    /\ DOMAIN halfedge = DOMAIN vertex
\* a face was added on the other side of an edge of an earlier face
C30_Witness ==
    /\ call.name = "add_face" /\ IsSome(call.ret)
    /\ \E e \in HalfedgeEntries(halfedge) :
           /\ IsSome(halfedge[e[1]][e[2]]) /\ IsSome(halfedge[e[2]][e[1]])
           /\ halfedge[e[1]][e[2]] # halfedge[e[2]][e[1]]

====
